---- MODULE Spec2Model ----
(***************************************************************************)
(* Bulk lookup of judicial processes against DataJud.                      *)
(*                                                                         *)
(* The module follows one POST /api/bulk-search request from its arrival   *)
(* to its response, in the two deployments of the repository:              *)
(*   "server"      server/routes.ts (Express route, zod schema, storage)   *)
(*   "serverless"  api/favorites.ts lines 126-222 (Vercel bulk handler)    *)
(* bulkSearchDataJud is the same loop in both: slices of batchSize         *)
(* identifiers, one promise per identifier, Promise.all, a one second      *)
(* timer between slices.  JavaScript runs every handler to its next await  *)
(* without interleaving, so an action is one such run.                     *)
(*                                                                         *)
(* The texts of the code are written here without their diacritics         *)
(* ("Nao informado" for "Não informado"): TLC keeps only the low byte of   *)
(* the characters of a string held in a state.                             *)
(***************************************************************************)
EXTENDS Integers, Sequences, FiniteSets, TLC

VARIABLES
    deployment,      \* which build answers the request
    hasApiKey,       \* process.env.DATAJUD_API_KEY is set (isDemoMode = ~hasApiKey)
    pc,              \* position of the request handler
    req,             \* req.body of the request being served
    responses,       \* what the upstream answers to the lookup of each input position
    bulk,            \* state of the bulkSearchDataJud call
    i,               \* loop variable of bulkSearchDataJud (0-based, as in the code)
    promises,        \* the promises created by batch.map so far, by input position
    results,         \* the results array of bulkSearchDataJud
    origin,          \* for each element of results, the input position it was made for
    completionOrder, \* positions of the current batch in the order they settled
    batches,         \* the slices taken so far: [start, size]
    pauses,          \* number of inter-batch timers awaited so far
    fetches,         \* number of upstream requests issued, by input position
    searchHistory,   \* storage.searchHistory, in insertion order
    res,             \* the HTTP response
    now,             \* the wall clock, as new Date() reads it
    url,             \* the urls of the upstream requests of a single lookup
    generated,       \* the documents the export generators have returned
    favorites,       \* storage.favorites and storage.follows
    calls,           \* the favorites and follows requests being served
    doc              \* the document stream of generatePDF and its promise

vars == <<deployment, hasApiKey, pc, req, responses, bulk, i, promises, results,
          origin, completionOrder, batches, pauses, fetches, searchHistory, res,
          now, url, generated, favorites, calls, doc>>

----------------------------------------------------------------------------
(* Bounds of the model *)

\* every list of at most MaxShortLen identifiers is tried, with every
\* combination of upstream answers
MaxShortLen == 2

\* the completion order of a batch is recorded when the batch has at most
\* MaxTrace lookups
MaxTrace == 3

(* Program constants *)

batchSize == 10

MaxProcessNumbers == 1000

----------------------------------------------------------------------------
(* Values *)

Null == <<>>

Some(x) == <<x>>

Min(a, b) == IF a < b THEN a ELSE b

\* the identifiers of the model
DemoZero == "0000000-00.0000.0.00.0000"

DemoNamed == "demo-process-123"

NumA == "9999999-99.9999.9.99.9999"

NumB == "1234567-89.2023.8.26.0001"

NotFoundMsg == "Processo nao encontrado"

UnknownErrorMsg == "Erro desconhecido"

\* String.prototype.includes("demo") over the identifiers of the model
includesDemo(num) == num \in {DemoNamed}

\* processNumber.replace(/\D/g, "") over the identifiers of the model
cleanProcessNumber(num) ==
    CASE num = DemoZero  -> "00000000000000000000"
      [] num = DemoNamed -> "123"
      [] num = NumA      -> "99999999999999999999"
      [] num = NumB      -> "12345678920238260001"
      [] OTHER           -> ""

\* String.prototype.toLowerCase and toUpperCase over the court codes of the
\* model: "tjsp", "TJSP", "TjSp", "tjac", "xyz", "XYZ", "constructor" and ""
toLowerCase(t) ==
    CASE t \in {"TJSP", "TjSp"} -> "tjsp"
      [] t = "XYZ"              -> "xyz"
      [] OTHER                  -> t

toUpperCase(t) ==
    CASE t \in {"tjsp", "TjSp"} -> "TJSP"
      [] t = "tjac"             -> "TJAC"
      [] t = "xyz"              -> "XYZ"
      [] OTHER                  -> t

ServerAliases ==
    {"stj", "stf", "tst", "tse", "stm",
     "trf1", "trf2", "trf3", "trf4", "trf5", "trf6",
     "tjsp", "tjrj", "tjmg", "tjrs", "tjpr", "tjsc", "tjac", "tjal", "tjam",
     "tjap", "tjba", "tjce", "tjdft", "tjes", "tjgo", "tjma", "tjms", "tjmt",
     "tjpa", "tjpb", "tjpe", "tjpi", "tjrn", "tjro", "tjrr", "tjse", "tjto"}

ServerlessAliases ==
    {"stj", "stf", "tst", "tse", "stm",
     "trf1", "trf2", "trf3", "trf4", "trf5", "trf6",
     "tjsp", "tjrj", "tjmg", "tjrs", "tjpr", "tjsc",
     "tjba", "tjce", "tjpe", "tjgo", "tjdft"}

tribunalAliases == IF deployment = "server" THEN ServerAliases ELSE ServerlessAliases

\* tribunalAliases is an object literal: a property lookup on it also finds
\* the properties of Object.prototype, of which these have lower-case names
InheritedProperties == {"constructor", "__proto__"}

\* tribunalAliases[tribunal.toLowerCase()] as the template literal of the url
\* prints it: an alias maps to itself, "constructor" to the function Object,
\* "__proto__" to Object.prototype; "" stands for undefined
AliasOf(tribunal) ==
    CASE toLowerCase(tribunal) \in tribunalAliases -> toLowerCase(tribunal)
      [] toLowerCase(tribunal) = "constructor"     -> "function Object() { [native code] }"
      [] toLowerCase(tribunal) = "__proto__"       -> "[object Object]"
      [] OTHER                                     -> ""

\* if (!tribunalAlias) is not taken
tribunalSupported(tribunal) ==
    toLowerCase(tribunal) \in tribunalAliases \cup InheritedProperties

\* a build that never takes itself for unconfigured
isDemoModeNever == FALSE

\* const isDemoMode = !API_KEY
isDemoMode == ~hasApiKey

----------------------------------------------------------------------------
(* searchDataJudProcess *)

\* the answers of the upstream to one lookup:
\*   hit        response.ok, one match
\*   nohit      response.ok, hits.hits empty or missing
\*   http_error response.ok false
\*   net_fail   fetch rejects
RespKind == {"hit", "nohit", "http_error", "net_fail"}

Error(message) == [isError |-> TRUE, message |-> message]

DemoModeMsg ==
    IF deployment = "server"
    THEN "Modo demonstracao: Use 'demo-process-123' ou '0000000-00.0000.0.00.0000' para testar"
    ELSE "Modo demonstracao: Configure DATAJUD_API_KEY"

UnsupportedMsg(tribunal) == "Tribunal nao suportado: " \o tribunal

UpstreamErrorMsg == "Erro na API DataJud: 500 - Internal Server Error"

FetchFailedMsg == "fetch failed"

Returned(value) == [ok |-> TRUE, value |-> Some(value), thrown |-> Null]

Thrown(error) == [ok |-> FALSE, value |-> Null, thrown |-> Some(error)]

\* JavaScript values of the fields of a hit: undefined, null, a string, a
\* number, or an object with the properties the normalization reads
Undefined == [kind |-> "undefined"]

JsNull == [kind |-> "null"]

Str(s) == [kind |-> "string", str |-> s]

Num(n) == [kind |-> "number", num |-> n]

Obj(nome, codigo, codigoMunicipioIBGE) ==
    [kind |-> "object", nome |-> nome, codigo |-> codigo,
     codigoMunicipioIBGE |-> codigoMunicipioIBGE]

\* ToBoolean(v)
Truthy(v) ==
    CASE v.kind = "string" -> v.str # ""
      [] v.kind = "number" -> v.num # 0
      [] v.kind = "object" -> TRUE
      [] OTHER             -> FALSE

\* a || b
Or(a, b) == IF Truthy(a) THEN a ELSE b

\* v?.nome, v?.codigo, v?.codigoMunicipioIBGE: undefined for undefined and
\* null, and for a string, which has no such property
OptNome(v) == IF v.kind = "object" THEN v.nome ELSE Undefined

OptCodigo(v) == IF v.kind = "object" THEN v.codigo ELSE Undefined

OptCodigoMunicipio(v) == IF v.kind = "object" THEN v.codigoMunicipioIBGE ELSE Undefined

NaoInformado == "Nao informado"

\* new Date().toISOString() when the wall clock reads t
toISOString(t) == "2025-01-0" \o ToString(t) \o "T12:00:00.000Z"

\* the _source of the one match the upstream returns for a lookup: a hit
\* with every field filled in
Hit(processNumber) ==
    [numeroProcesso            |-> cleanProcessNumber(processNumber),
     classe                    |-> Obj(Str("Procedimento Comum Civel"), Num(7), Undefined),
     sistema                   |-> Obj(Str("PJe"), Num(1), Undefined),
     formato                   |-> Obj(Str("Eletronico"), Num(1), Undefined),
     grau                      |-> Str("G1"),
     dataAjuizamento           |-> Str("2023-01-15T00:00:00.000Z"),
     orgaoJulgador             |-> Obj(Str("1a Vara Civel"), Num(9876), Num(3550308)),
     dataHoraUltimaAtualizacao |-> Str("2024-03-02T08:30:00.000Z"),
     dataUltimaAtualizacao     |-> Str("2024-03-01"),
     nivelSigilo               |-> Num(0),
     movimentos                |-> Null,
     assuntos                  |-> Null]

\* a fallback that always yields the sentinel
FormatoFallbackSentinel == Str(NaoInformado)

\* the last operand of the || chain of formatoProcesso
FormatoFallback == Str("eletronico")

\* the last operand of the || chain of ultimaAtualizacao: new Date().toISOString()
\* when the clock reads t
LastUpdateFallback(t) == Str(toISOString(t))

\* the date preferred over the date-time
LastUpdateOfDateFirst(processData, t) ==
    Or(processData.dataUltimaAtualizacao,
       Or(processData.dataHoraUltimaAtualizacao, LastUpdateFallback(t)))

\* processData.dataHoraUltimaAtualizacao || processData.dataUltimaAtualizacao
\*   || new Date().toISOString()
LastUpdateOf(processData, t) ==
    Or(processData.dataHoraUltimaAtualizacao,
       Or(processData.dataUltimaAtualizacao, LastUpdateFallback(t)))

\* processData.movimentos || [], processData.assuntos || []
OrEmpty(list) == IF list = Null THEN <<>> ELSE list[1]

\* the object searchDataJudProcess returns for a match when the clock reads t
NormalizeAt(processData, processNumber, tribunal, t) ==
    [numeroProcesso         |-> IF processData.numeroProcesso # ""
                                THEN processData.numeroProcesso ELSE processNumber,
     classeProcessual       |-> Or(OptNome(processData.classe), Str(NaoInformado)),
     codigoClasseProcessual |-> Or(OptCodigo(processData.classe), Num(0)),
     sistemaProcessual      |-> Or(OptNome(processData.sistema),
                                   Or(processData.sistema, Str(NaoInformado))),
     codigoSistema          |-> OptCodigo(processData.sistema),
     formatoProcesso        |-> Or(OptNome(processData.formato),
                                   Or(processData.formato, FormatoFallback)),
     codigoFormato          |-> OptCodigo(processData.formato),
     tribunal               |-> toUpperCase(tribunal),
     ultimaAtualizacao      |-> LastUpdateOf(processData, t),
     grau                   |-> Or(processData.grau, Str(NaoInformado)),
     dataAjuizamento        |-> Or(processData.dataAjuizamento, Str(NaoInformado)),
     nivelSigilo            |-> processData.nivelSigilo,
     movimentos             |-> OrEmpty(processData.movimentos),
     orgaoJulgador          |-> Or(OptNome(processData.orgaoJulgador), Str(NaoInformado)),
     codigoOrgaoJulgador    |-> OptCodigo(processData.orgaoJulgador),
     codigoMunicipio        |-> OptCodigoMunicipio(processData.orgaoJulgador),
     assuntos               |-> OrEmpty(processData.assuntos)]

\* the object searchDataJudProcess returns for a match, at the present time
Normalize(processData, processNumber, tribunal) ==
    NormalizeAt(processData, processNumber, tribunal, now)

\* the object advancedSearchDataJud builds for each match: the same chains,
\* numeroProcesso falling back to the sentinel
NormalizeAdvanced(processData, tribunal) == Normalize(processData, NaoInformado, tribunal)

\* searchDataJudProcess up to its fetch: what it throws before any request,
\* or Null when it issues the request
SearchBeforeFetch(tribunal) ==
    IF isDemoMode THEN Some(Error(DemoModeMsg))
    ELSE IF ~tribunalSupported(tribunal) THEN Some(Error(UnsupportedMsg(tribunal)))
    ELSE Null

\* searchDataJudProcess without the check for zero matches: hits[0] is undefined
SearchAfterFetchNoEmptyCheck(tribunal, processNumber, resp) ==
    CASE resp = "net_fail"   -> Thrown(Error(FetchFailedMsg))
      [] resp = "http_error" -> Thrown(Error(UpstreamErrorMsg))
      [] resp = "nohit"      ->
             Thrown(Error("Cannot read properties of undefined (reading '_source')"))
      [] OTHER               -> Returned(Normalize(Hit(processNumber), processNumber, tribunal))

\* searchDataJudProcess from the answer of its fetch on
SearchAfterFetch(tribunal, processNumber, resp) ==
    CASE resp = "net_fail"   -> Thrown(Error(FetchFailedMsg))
      [] resp = "http_error" -> Thrown(Error(UpstreamErrorMsg))
      [] resp = "nohit"      -> Thrown(Error(NotFoundMsg))
      [] OTHER               -> Returned(Normalize(Hit(processNumber), processNumber, tribunal))

\* the answer of the upstream to one request: kind as in RespKind, the
\* _source of every match, and the status and text of a response that is
\* not ok
Answer(kind, hits, status, text) ==
    [kind |-> kind, hits |-> hits, status |-> status, text |-> text]

OkAnswer(hits) == Answer(IF hits = <<>> THEN "nohit" ELSE "hit", hits, 200, "")

\* `Erro na API DataJud: ${response.status} - ${errorText}`
UpstreamErrorMsgOf(status, text) ==
    "Erro na API DataJud: " \o ToString(status) \o " - " \o text

\* a lookup that takes every response for a success
SearchAfterResponseIgnoreStatus(tribunal, processNumber, answer) ==
    CASE answer.kind = "net_fail" -> Thrown(Error(FetchFailedMsg))
      [] Len(answer.hits) = 0     -> Thrown(Error(NotFoundMsg))
      [] OTHER -> Returned(Normalize(answer.hits[1], processNumber, tribunal))

\* searchDataJudProcess from the answer of its fetch on, for any answer
SearchAfterResponse(tribunal, processNumber, answer) ==
    CASE answer.kind = "net_fail"   -> Thrown(Error(FetchFailedMsg))
      [] answer.kind = "http_error" ->
             Thrown(Error(UpstreamErrorMsgOf(answer.status, answer.text)))
      [] Len(answer.hits) = 0       -> Thrown(Error(NotFoundMsg))
      [] OTHER -> Returned(Normalize(answer.hits[1], processNumber, tribunal))

BaseUrl == "https://api-publica.datajud.cnj.jus.br/"

\* `${DATAJUD_BASE_URL}api_publica_${tribunalAlias}/_search`
Endpoint(tribunal) == BaseUrl \o "api_publica_" \o AliasOf(tribunal) \o "/_search"

(* advancedSearchDataJud *)

AdvancedDemoModeMsg ==
    "Modo demonstracao: Use 'demo-process-123' ou 'demo' no campo de busca para testar"

NoFilterMsg == "E necessario especificar pelo menos um filtro de busca"

AdvancedNotFoundMsg == "Nenhum processo encontrado com os filtros especificados"

\* query.bool.must.length === 0, for a request with the filters of the model
NoFilters(params) == params.processClass = "" /\ params.searchTerm = ""

\* advancedSearchDataJud up to its fetch: what it throws, or Null
AdvancedBeforeFetch(params) ==
    IF isDemoMode THEN Some(Error(AdvancedDemoModeMsg))
    ELSE IF ~tribunalSupported(params.tribunal)
         THEN Some(Error(UnsupportedMsg(params.tribunal)))
    ELSE IF NoFilters(params) THEN Some(Error(NoFilterMsg))
    ELSE Null

\* advancedSearchDataJud from the answer of its fetch on
AdvancedAfterResponse(params, answer) ==
    CASE answer.kind = "net_fail"   -> Thrown(Error(FetchFailedMsg))
      [] answer.kind = "http_error" ->
             Thrown(Error(UpstreamErrorMsgOf(answer.status, answer.text)))
      [] Len(answer.hits) = 0       -> Thrown(Error(AdvancedNotFoundMsg))
      [] OTHER ->
             Returned([k \in 1..Len(answer.hits) |->
                          NormalizeAdvanced(answer.hits[k], params.tribunal)])

----------------------------------------------------------------------------
(* bulkSearchDataJud *)

isDemoNumber(processNumber) ==
    \/ processNumber = DemoZero
    \/ processNumber = DemoNamed
    \/ includesDemo(processNumber)

DemoRecord(processNumber, tribunal) ==
    [numeroProcesso   |-> processNumber,
     classeProcessual |-> "Acao Civil Publica (Demo)",
     tribunal         |-> toUpperCase(tribunal)]

\* the object the map callback returns after a lookup that found a record
SuccessOutcome(processNumber, result) ==
    [processNumber |-> processNumber, result |-> Some(result), error |-> Null,
     status |-> "success"]

\* a catch block that leaves error null for a not-found
CatchOutcomeNullError(processNumber, error) ==
    [processNumber |-> processNumber,
     result |-> Null,
     error  |-> IF error.isError /\ error.message = NotFoundMsg THEN Null
                ELSE Some(IF error.isError THEN error.message ELSE UnknownErrorMsg),
     status |-> IF error.isError /\ error.message = NotFoundMsg
                THEN "not_found" ELSE "error"]

\* a catch block that does not tell a not-found from the other failures
CatchOutcomeAllErrors(processNumber, error) ==
    [processNumber |-> processNumber,
     result |-> Null,
     error  |-> Some(IF error.isError THEN error.message ELSE UnknownErrorMsg),
     status |-> "error"]

\* the catch block of the map callback
CatchOutcome(processNumber, error) ==
    [processNumber |-> processNumber,
     result |-> Null,
     error  |-> Some(IF error.isError THEN error.message ELSE UnknownErrorMsg),
     status |-> IF error.isError /\ error.message = NotFoundMsg
                THEN "not_found" ELSE "error"]

Pending == [state |-> "pending", value |-> Null, reason |-> Null]

Fulfilled(value) == [state |-> "fulfilled", value |-> Some(value), reason |-> Null]

Rejected(reason) == [state |-> "rejected", value |-> Null, reason |-> Some(reason)]

\* a map callback without the try/catch: the failure rejects its promise
OnLookupThrownUncaught(processNumber, error) == Rejected(error)

\* try { ... } catch of the map callback around a failure of the lookup
OnLookupThrown(processNumber, error) == Fulfilled(CatchOutcome(processNumber, error))

\* the promise of the map callback once its lookup has settled
OnLookupSettled(processNumber, lookup) ==
    IF lookup.ok THEN Fulfilled(SuccessOutcome(processNumber, lookup.value[1]))
    ELSE OnLookupThrown(processNumber, lookup.thrown[1])

\* the server build answers the demo identifiers without a lookup
hasDemoShortcut == deployment = "server"

\* the promise of the map callback when it first suspends or ends
LaunchItem(tribunal, processNumber) ==
    IF hasDemoShortcut /\ isDemoNumber(processNumber)
    THEN Fulfilled(SuccessOutcome(processNumber, DemoRecord(processNumber, tribunal)))
    ELSE IF SearchBeforeFetch(tribunal) # Null
         THEN OnLookupThrown(processNumber, SearchBeforeFetch(tribunal)[1])
         ELSE Pending

\* slice(i, i + batchSize + 1)
SliceEndOffByOne(start, n) == Min(start + batchSize + 1, n)

\* processNumbers.slice(i, i + batchSize), as input positions (1-based)
SliceEnd(start, n) == Min(start + batchSize, n)

BatchPositions(start, n) == [k \in 1..(SliceEnd(start, n) - start) |-> start + k]

\* i + batchSize <= processNumbers.length
NeedsPauseInclusive(start, n) == start + batchSize <= n

\* i + batchSize < processNumbers.length
NeedsPause(start, n) == start + batchSize < n

----------------------------------------------------------------------------
(* The requests and upstream answers the model draws from *)

Ids == {DemoZero, NumA, NumB}

ShortLists == UNION {[1..n -> Ids] : n \in 0..MaxShortLen}

\* a list of n identifiers with duplicates
LongList(n) == [k \in 1..n |-> IF k % 3 = 0 THEN NumB ELSE NumA]

\* list lengths run with a credential: one full batch, and a full batch plus one
KeyedLongLens == {batchSize, batchSize + 1}

\* list lengths run without a credential (every lookup settles at once)
UnkeyedLongLens ==
    {batchSize, batchSize + 1, 2 * batchSize, 2 * batchSize + 1, 2 * batchSize + 5,
     MaxProcessNumbers}

Body(tribunal, processNumbers) ==
    [tribunal |-> tribunal, hasList |-> TRUE, processNumbers |-> processNumbers]

ShortRequests == {Body(t, l) : t \in {"tjsp", "xyz"}, l \in ShortLists}

EdgeRequests ==
    {Body(t, l) : t \in {"TJSP", "tjac", "constructor", ""},
                  l \in {<<NumA>>, <<NumA, NumB>>, <<NumB, DemoZero>>}}
    \cup {Body("tjsp", l) : l \in {<<"">>, <<NumA, "">>, <<DemoNamed, NumA>>}}
    \cup {[tribunal |-> "tjsp", hasList |-> FALSE, processNumbers |-> <<>>]}
    \cup {Body(t, LongList(MaxProcessNumbers + 1)) : t \in {"tjsp", "xyz"}}

LongRequests ==
    {Body("tjsp", LongList(n)) :
        n \in IF hasApiKey THEN KeyedLongLens ELSE UnkeyedLongLens}

Requests == ShortRequests \cup EdgeRequests \cup LongRequests

\* the answers of the upstream, by input position: every combination for a
\* short list, the two-periodic ones for a long list
Answers(n) ==
    IF n <= MaxShortLen + 1
    THEN [1..n -> RespKind]
    ELSE {[k \in 1..n |-> IF k % 2 = 1 THEN a ELSE b] : a, b \in RespKind}

----------------------------------------------------------------------------
(* POST /api/bulk-search: validation *)

NoResponse == [status |-> 0, error |-> Null, data |-> Null]

ErrorResponse(message) == [status |-> 400, error |-> Some(message), data |-> Null]

OkResponse(data) == [status |-> 200, error |-> Null, data |-> Some(data)]

\* .max(1001)
WithinMaxOffByOne(n) == n <= MaxProcessNumbers + 1

\* z.array(...).max(1000)
WithinMax(n) == n <= MaxProcessNumbers

\* bulkSearchSchema.parse(req.body): the message of the first issue, or Null
SchemaIssue(body) ==
    IF body.tribunal = "" THEN Some("Tribunal e obrigatorio")
    ELSE IF ~body.hasList THEN Some("Required")
    ELSE IF \E k \in 1..Len(body.processNumbers) : body.processNumbers[k] = ""
         THEN Some("Numero do processo nao pode estar vazio")
    ELSE IF Len(body.processNumbers) < 1
         THEN Some("Pelo menos um numero de processo e obrigatorio")
    ELSE IF ~WithinMax(Len(body.processNumbers))
         THEN Some("Maximo de 1000 processos por busca")
    ELSE Null

\* the checks of the serverless handler before it calls bulkSearchDataJud
HandlerIssue(body) ==
    IF body.tribunal = "" \/ ~body.hasList
    THEN Some("Tribunal e lista de processos sao obrigatorios")
    ELSE IF Len(body.processNumbers) = 0
         THEN Some("A lista de processos nao pode estar vazia")
    ELSE IF Len(body.processNumbers) > MaxProcessNumbers
         THEN Some("Maximo de 1000 processos por busca")
    ELSE Null

RequestIssue(body) ==
    IF deployment = "server" THEN SchemaIssue(body) ELSE HandlerIssue(body)

\* processNumbers.some(num => num.includes("demo") || ...) of the server route
isDemoRequest(body) ==
    /\ deployment = "server"
    /\ \E k \in 1..Len(body.processNumbers) : isDemoNumber(body.processNumbers[k])

\* demoResults of the server route: one success per identifier, index is 0-based
DemoOutcome(processNumber, tribunal, index) ==
    SuccessOutcome(processNumber,
        [numeroProcesso   |-> processNumber,
         classeProcessual |-> "Acao Civil Publica (Demo " \o ToString(index + 1) \o ")",
         tribunal         |-> toUpperCase(tribunal)])

DemoResults(body) ==
    [k \in 1..Len(body.processNumbers) |->
        DemoOutcome(body.processNumbers[k], body.tribunal, k - 1)]

HistoryEntry(processNumber, tribunal, resultData) ==
    [processNumber |-> processNumber, tribunal |-> tribunal, resultData |-> resultData]

\* for (const result of results) if (result.status === "success" && result.result)
\*   await storage.addSearchHistory(...)
SaveSuccessful(history, outcomes, tribunal) ==
    LET saved == SelectSeq(outcomes, LAMBDA o : o.status = "success" /\ o.result # Null)
    IN  history \o [k \in 1..Len(saved) |->
                       HistoryEntry(saved[k].processNumber, tribunal, saved[k].result)]

----------------------------------------------------------------------------
(* The state machine *)

NoBody == [tribunal |-> "", hasList |-> FALSE, processNumbers |-> <<>>]

\* no favorite and no follow is stored
NoFavorites == [favorites |-> <<>>, follows |-> <<>>]

\* generatePDF has not been called
NoDocument == [state |-> "none"]

Init ==
    /\ deployment \in {"server", "serverless"}
    /\ hasApiKey \in BOOLEAN
    /\ pc = "idle"
    /\ req = NoBody
    /\ responses = <<>>
    /\ bulk = "not_called"
    /\ i = 0
    /\ promises = <<>>
    /\ results = <<>>
    /\ origin = <<>>
    /\ completionOrder = <<>>
    /\ batches = <<>>
    /\ pauses = 0
    /\ fetches = <<>>
    /\ searchHistory = <<>>
    /\ res = NoResponse
    /\ now = 1
    /\ url = <<>>
    /\ generated = <<>>
    /\ favorites = NoFavorites
    /\ calls = <<>>
    /\ doc = NoDocument

N == Len(req.processNumbers)

\* the input positions of the batch of the current iteration
CurrentBatch == BatchPositions(i, N)

Traced(positions) == Len(positions) <= MaxTrace

\* the positions among `positions` whose promise is settled in ps, in order
SettledIn(ps, positions) == SelectSeq(positions, LAMBDA q : ps[q].state # "pending")

\* a lookup that issues its request again after a failed or empty answer
RequestsIssuedWithRetry(promise, resp) ==
    IF promise.state # "pending" THEN 0
    ELSE IF resp = "hit" THEN 1 ELSE 2

\* the upstream requests one call of searchDataJudProcess issues: its one
\* fetch when it gets past its checks, whatever the answer will be
RequestsIssued(promise, resp) == IF promise.state = "pending" THEN 1 ELSE 0

\* batch.map(async (processNumber) => ...) on the slice starting at `start`:
\* every callback runs to its first await
LaunchBatch(body, start) ==
    LET positions == BatchPositions(start, Len(body.processNumbers))
        created   == [k \in 1..Len(positions) |->
                         LaunchItem(body.tribunal, body.processNumbers[positions[k]])]
        all       == promises \o created
    IN  /\ promises' = all
        /\ fetches' = fetches \o
               [k \in 1..Len(positions) |->
                   RequestsIssued(created[k], responses'[positions[k]])]
        /\ batches' = Append(batches, [start |-> start, size |-> Len(positions)])
        /\ completionOrder' =
               IF Traced(positions) THEN SettledIn(all, positions) ELSE <<>>

\* the request fails validation: 400 before anything else happens
RejectInvalid(body) ==
    /\ pc = "idle"
    /\ RequestIssue(body) # Null
    /\ req' = body
    /\ res' = ErrorResponse(RequestIssue(body)[1])
    /\ pc' = "responded"
    /\ UNCHANGED <<now, url, generated, favorites, calls, doc>>
    /\ UNCHANGED <<deployment, hasApiKey, responses, bulk, i, promises, results, origin,
                   completionOrder, batches, pauses, fetches, searchHistory>>

\* the demo branch of the server route: fixture results for all identifiers
DemoBranch(body) ==
    /\ pc = "idle"
    /\ RequestIssue(body) = Null
    /\ isDemoRequest(body)
    /\ req' = body
    /\ searchHistory' = SaveSuccessful(searchHistory, DemoResults(body), body.tribunal)
    /\ res' = OkResponse(DemoResults(body))
    /\ pc' = "responded"
    /\ UNCHANGED <<now, url, generated, favorites, calls, doc>>
    /\ UNCHANGED <<deployment, hasApiKey, responses, bulk, i, promises, results, origin,
                   completionOrder, batches, pauses, fetches>>

\* bulkSearchDataJud throws on the court; the catch of the handler answers 400
RejectTribunal(body) ==
    /\ pc = "idle"
    /\ RequestIssue(body) = Null
    /\ ~isDemoRequest(body)
    /\ ~tribunalSupported(body.tribunal)
    /\ req' = body
    /\ bulk' = "rejected"
    /\ res' = ErrorResponse(UnsupportedMsg(body.tribunal))
    /\ pc' = "responded"
    /\ UNCHANGED <<now, url, generated, favorites, calls, doc>>
    /\ UNCHANGED <<deployment, hasApiKey, responses, i, promises, results, origin,
                   completionOrder, batches, pauses, fetches, searchHistory>>

\* bulkSearchDataJud accepts the court and launches the first batch
StartBulk(body, answers) ==
    /\ pc = "idle"
    /\ RequestIssue(body) = Null
    /\ ~isDemoRequest(body)
    /\ tribunalSupported(body.tribunal)
    /\ req' = body
    /\ responses' = answers
    /\ bulk' = "running"
    /\ i' = 0
    /\ results' = <<>>
    /\ LaunchBatch(body, 0)
    /\ pc' = "running"
    /\ UNCHANGED <<now, url, generated, favorites, calls, doc>>
    /\ UNCHANGED <<deployment, hasApiKey, origin, pauses, searchHistory, res>>

\* the upstream answers the lookup of position p and the callback finishes
Settle(p) ==
    /\ p \in 1..Len(promises)
    /\ promises[p].state = "pending"
    /\ promises' = [promises EXCEPT ![p] =
           OnLookupSettled(req.processNumbers[p],
               SearchAfterFetch(req.tribunal, req.processNumbers[p], responses[p]))]
    /\ completionOrder' =
           IF p > i /\ Traced(CurrentBatch) THEN Append(completionOrder, p)
           ELSE completionOrder
    /\ UNCHANGED <<now, url, generated, favorites, calls, doc>>
    /\ UNCHANGED <<deployment, hasApiKey, pc, req, responses, bulk, i, results, origin,
                   batches, pauses, fetches, searchHistory, res>>

\* Promise.all(batchPromises) fulfils once every promise of the batch has
AllFulfilled(ps, positions) ==
    \A k \in 1..Len(positions) : ps[positions[k]].state = "fulfilled"

\* Promise.all(batchPromises) rejects once one promise of the batch has
AnyRejected(ps, positions) ==
    \E k \in 1..Len(positions) : ps[positions[k]].state = "rejected"

\* values handed over in the order the promises settled
JoinOrderByCompletion(positions, completed) == completed

\* the order in which Promise.all hands over the values: that of the array
JoinOrder(positions, completed) == positions

\* results = batchResults in place of the push
PushAllOverwrite(array, items) == items

\* results.push(...batchResults)
PushAll(array, items) == array \o items

\* await Promise.all(batchPromises) resumes; push; then the timer or the return
JoinBatch ==
    /\ pc = "running"
    /\ \/ AllFulfilled(promises, CurrentBatch)
       \/ AnyRejected(promises, CurrentBatch)
    /\ IF AnyRejected(promises, CurrentBatch)
       THEN LET k == CHOOSE k \in 1..Len(CurrentBatch) :
                        promises[CurrentBatch[k]].state = "rejected"
                e == promises[CurrentBatch[k]].reason[1]
            IN  /\ bulk' = "rejected"
                /\ res' = ErrorResponse(IF e.isError THEN e.message
                                        ELSE "Erro na busca em lote")
                /\ pc' = "responded"
                /\ UNCHANGED <<results, origin, pauses>>
       ELSE LET order == JoinOrder(CurrentBatch, completionOrder)
                batchResults == [k \in 1..Len(order) |-> promises[order[k]].value[1]]
            IN  /\ results' = PushAll(results, batchResults)
                /\ origin' = PushAll(origin, order)
                /\ IF NeedsPause(i, N)
                   THEN /\ pc' = "pausing"
                        /\ pauses' = pauses + 1
                        /\ bulk' = bulk
                   ELSE /\ pc' = "returned"
                        /\ pauses' = pauses
                        /\ bulk' = "returned"
                /\ res' = res
    /\ UNCHANGED <<now, url, generated, favorites, calls, doc>>
    /\ UNCHANGED <<deployment, hasApiKey, req, responses, i, promises, completionOrder,
                   batches, fetches, searchHistory>>

\* the timer fires: i += batchSize and the next batch is launched
PauseElapsed ==
    /\ pc = "pausing"
    /\ i' = i + batchSize
    /\ UNCHANGED <<now, url, generated, favorites, calls, doc>>
    /\ UNCHANGED <<deployment, hasApiKey, req, responses, bulk, results, origin, pauses,
                   searchHistory, res>>
    /\ LaunchBatch(req, i + batchSize)
    /\ pc' = "running"

\* the handler resumes after bulkSearchDataJud returned
Respond ==
    /\ pc = "returned"
    /\ searchHistory' =
           IF deployment = "server"
           THEN SaveSuccessful(searchHistory, results, req.tribunal)
           ELSE searchHistory
    /\ res' = OkResponse(results)
    /\ pc' = "responded"
    /\ UNCHANGED <<now, url, generated, favorites, calls, doc>>
    /\ UNCHANGED <<deployment, hasApiKey, req, responses, bulk, i, promises, results,
                   origin, completionOrder, batches, pauses, fetches>>

Next ==
    \/ pc = "idle" /\ \E body \in Requests : RejectInvalid(body)
    \/ pc = "idle" /\ \E body \in Requests : DemoBranch(body)
    \/ pc = "idle" /\ \E body \in Requests : RejectTribunal(body)
    \/ pc = "idle" /\ \E body \in Requests :
           \E answers \in Answers(Len(body.processNumbers)) : StartBulk(body, answers)
    \/ \E p \in 1..Len(promises) : Settle(p)
    \/ JoinBatch
    \/ PauseElapsed
    \/ Respond

Spec == Init /\ [][Next]_vars

\* every lookup in flight is answered in the end, the handler resumes once
\* Promise.all has settled, and the timer of a pause fires
Fairness ==
    /\ WF_vars(\E p \in 1..Len(promises) : Settle(p))
    /\ WF_vars(JoinBatch)
    /\ WF_vars(PauseElapsed)

FairSpec == Spec /\ Fairness

----------------------------------------------------------------------------
(* POST /api/search-process and POST /api/advanced-search *)

\* the wall clock advances at most to MaxClock while a lookup is awaited
MaxClock == 2

LookupBody(route, tribunal, processNumber, processClass, searchTerm) ==
    [route |-> route, tribunal |-> tribunal, processNumber |-> processNumber,
     processClass |-> processClass, searchTerm |-> searchTerm]

Courts == {"tjsp", "TJSP", "TjSp", "tjac", "xyz", "XYZ", "constructor", ""}

SearchRequests ==
    {LookupBody("search", t, n, "", "") : t \in Courts, n \in {NumA, DemoZero, DemoNamed, ""}}

AdvancedRequests ==
    {LookupBody("advanced", t, "", c, q) :
        t \in {"tjsp", "TJSP", "xyz", ""}, c \in {"", "Demo"}, q \in {"", "demo", "dano moral"}}

LookupRequests ==
    SearchRequests \cup (IF deployment = "server" THEN AdvancedRequests ELSE {})

\* the values a field that upstream gives as {codigo, nome} takes in the model
NameVals(name) ==
    {Undefined, JsNull, Str(name), Obj(Str(name), Num(7), Undefined),
     Obj(Undefined, Num(7), Undefined)}

\* the values a field that upstream gives as a string takes in the model
PlainVals(text) == {Undefined, JsNull, Str(text), Obj(Str(text), Undefined, Undefined)}

StampVals(text) == {Undefined, Str(text)}

\* every combination of missing, null, string and object for the fields the
\* normalization reads
RawHits ==
    [numeroProcesso            : {"", cleanProcessNumber(NumA)},
     classe                    : NameVals("Procedimento Comum Civel"),
     sistema                   : NameVals("PJe"),
     formato                   : NameVals("Fisico"),
     grau                      : PlainVals("G1"),
     dataAjuizamento           : PlainVals("2023-01-15T00:00:00.000Z"),
     orgaoJulgador             : NameVals("1a Vara Civel"),
     dataHoraUltimaAtualizacao : StampVals("2024-03-02T08:30:00.000Z"),
     dataUltimaAtualizacao     : StampVals("2024-03-01"),
     nivelSigilo               : {Num(0)},
     movimentos                : {Null},
     assuntos                  : {Null}]

\* the request whose lookup is answered with every raw hit
ProbeRequest == LookupBody("search", "tjsp", NumA, "", "")

FailedAnswers ==
    {Answer("net_fail", <<>>, 0, ""),
     Answer("http_error", <<>>, 500, "Internal Server Error"),
     Answer("http_error", <<>>, 429, "Too Many Requests")}

LookupAnswers(body) ==
    FailedAnswers
    \cup {OkAnswer(<<>>), OkAnswer(<<Hit(NumA)>>), OkAnswer(<<Hit(NumB), Hit(NumA)>>)}
    \cup (IF body = ProbeRequest THEN {OkAnswer(<<h>>) : h \in RawHits} ELSE {})

\* processSearchSchema.parse / advancedSearchSchema.parse: the first issue
LookupSchemaIssue(body) ==
    IF body.route = "search" /\ body.processNumber = ""
    THEN Some("Numero do processo e obrigatorio")
    ELSE IF body.tribunal = "" THEN Some("Tribunal e obrigatorio")
    ELSE Null

\* if (!processNumber || !tribunal) of the serverless handler
LookupHandlerIssue(body) ==
    IF body.processNumber = "" \/ body.tribunal = ""
    THEN Some("Numero do processo e tribunal sao obrigatorios")
    ELSE Null

LookupIssue(body) ==
    IF deployment = "server" THEN LookupSchemaIssue(body) ELSE LookupHandlerIssue(body)

\* the demo checks of the two server routes
isDemoLookup(body) ==
    /\ deployment = "server"
    /\ IF body.route = "search"
       THEN body.processNumber \in {DemoZero, DemoNamed}
       ELSE \/ body.processClass = "Demo"
            \/ body.searchTerm \in {"demo", DemoNamed, DemoZero}

\* demoResult of POST /api/search-process
DemoResult(processNumber, tribunal) ==
    [numeroProcesso         |-> processNumber,
     classeProcessual       |-> Str("Acao Civil Publica"),
     codigoClasseProcessual |-> Num(12729),
     sistemaProcessual      |-> Str("PJe"),
     codigoSistema          |-> Num(3),
     formatoProcesso        |-> Str("eletronico"),
     codigoFormato          |-> Num(1),
     tribunal               |-> toUpperCase(tribunal),
     ultimaAtualizacao      |-> Str(toISOString(now)),
     grau                   |-> Str("1o Grau"),
     dataAjuizamento        |-> Str("2023-01-15T00:00:00Z"),
     nivelSigilo            |-> Num(0),
     movimentos             |-> <<>>,
     orgaoJulgador          |-> Str("1a Vara Civel"),
     codigoOrgaoJulgador    |-> Num(9700),
     codigoMunicipio        |-> Num(3550308),
     assuntos               |-> <<>>]

\* demoResults of POST /api/advanced-search
AdvancedDemoResults(tribunal) ==
    <<[DemoResult("1234567-89.2023.8.26.0001", tribunal) EXCEPT
          !.classeProcessual = Str("Acao de Cobranca"),
          !.codigoClasseProcessual = Num(10234),
          !.orgaoJulgador = Str("2a Vara Civel"),
          !.codigoOrgaoJulgador = Num(9701)],
      [DemoResult("2345678-90.2023.8.26.0002", tribunal) EXCEPT
          !.classeProcessual = Str("Acao de Cobranca"),
          !.codigoClasseProcessual = Num(10234),
          !.dataAjuizamento = Str("2023-02-10T00:00:00Z"),
          !.orgaoJulgador = Str("3a Vara Civel"),
          !.codigoOrgaoJulgador = Num(9702)]>>

\* what the lookup function of the route throws before any request, or Null
LookupBeforeFetch(body) ==
    IF body.route = "search" THEN SearchBeforeFetch(body.tribunal)
    ELSE AdvancedBeforeFetch(body)

\* what the lookup function of the route makes of the answer
LookupAfterResponse(body, answer) ==
    IF body.route = "search"
    THEN SearchAfterResponse(body.tribunal, body.processNumber, answer)
    ELSE AdvancedAfterResponse(body, answer)

\* a catch that writes nothing
SaveNothingOnFailure(history, body) == history

\* the catch of POST /api/search-process keeps the failed search
SaveFailed(history, body) ==
    IF deployment = "server" /\ body.route = "search"
       /\ body.processNumber # "" /\ body.tribunal # ""
    THEN Append(history, HistoryEntry(body.processNumber, body.tribunal, Null))
    ELSE history

\* the history writes of the routes after a lookup that returned
SaveFound(history, body, value) ==
    IF deployment # "server" THEN history
    ELSE IF body.route = "search"
         THEN Append(history, HistoryEntry(body.processNumber, body.tribunal, Some(value)))
         ELSE Append(history,
                     HistoryEntry(value[1].numeroProcesso, body.tribunal, Some(value[1])))

bulkVars == <<bulk, i, promises, results, origin, completionOrder, batches, pauses>>

\* the body fails validation
LookupRejectInvalid(body) ==
    /\ pc = "idle"
    /\ LookupIssue(body) # Null
    /\ req' = body
    /\ searchHistory' = SaveFailed(searchHistory, body)
    /\ res' = ErrorResponse(LookupIssue(body)[1])
    /\ pc' = "responded"
    /\ UNCHANGED <<deployment, hasApiKey, responses, fetches, now, url, generated, favorites, calls, doc>>
    /\ UNCHANGED bulkVars

\* the demo branch of the server routes
LookupDemo(body) ==
    /\ pc = "idle"
    /\ LookupIssue(body) = Null
    /\ isDemoLookup(body)
    /\ req' = body
    /\ IF body.route = "search"
       THEN LET demoResult == DemoResult(body.processNumber, body.tribunal)
            IN  /\ searchHistory' = Append(searchHistory,
                       HistoryEntry(body.processNumber, body.tribunal, Some(demoResult)))
                /\ res' = OkResponse(demoResult)
       ELSE LET demoResults == AdvancedDemoResults(body.tribunal)
            IN  /\ searchHistory' = searchHistory \o
                       [k \in 1..Len(demoResults) |->
                           HistoryEntry(demoResults[k].numeroProcesso, body.tribunal,
                                        Some(demoResults[k]))]
                /\ res' = OkResponse(demoResults)
    /\ pc' = "responded"
    /\ UNCHANGED <<deployment, hasApiKey, responses, fetches, now, url, generated, favorites, calls, doc>>
    /\ UNCHANGED bulkVars

\* the lookup function throws before it issues a request
LookupFailFast(body) ==
    /\ pc = "idle"
    /\ LookupIssue(body) = Null
    /\ ~isDemoLookup(body)
    /\ LookupBeforeFetch(body) # Null
    /\ req' = body
    /\ searchHistory' = SaveFailed(searchHistory, body)
    /\ res' = ErrorResponse(LookupBeforeFetch(body)[1].message)
    /\ pc' = "responded"
    /\ UNCHANGED <<deployment, hasApiKey, responses, fetches, now, url, generated, favorites, calls, doc>>
    /\ UNCHANGED bulkVars

\* the lookup function issues its request and awaits the answer
LookupFetch(body) ==
    /\ pc = "idle"
    /\ LookupIssue(body) = Null
    /\ ~isDemoLookup(body)
    /\ LookupBeforeFetch(body) = Null
    /\ req' = body
    /\ url' = Append(url, Endpoint(body.tribunal))
    /\ fetches' = Append(fetches, 1)
    /\ pc' = "fetching"
    /\ UNCHANGED <<deployment, hasApiKey, responses, searchHistory, res, now, generated, favorites, calls, doc>>
    /\ UNCHANGED bulkVars

\* time passes while an answer or a document is awaited
Tick ==
    /\ pc \in {"fetching", "generating"}
    /\ now < MaxClock
    /\ now' = now + 1
    /\ UNCHANGED <<deployment, hasApiKey, pc, req, responses, fetches, searchHistory, res,
                   url, generated, favorites, calls, doc>>
    /\ UNCHANGED bulkVars

\* the answer arrives: the lookup function returns or throws, the route
\* writes the history and responds
LookupSettle(answer) ==
    /\ pc = "fetching"
    /\ responses' = <<answer>>
    /\ LET lookup == LookupAfterResponse(req, answer)
       IN  IF lookup.ok
           THEN /\ searchHistory' = SaveFound(searchHistory, req, lookup.value[1])
                /\ res' = OkResponse(lookup.value[1])
           ELSE /\ searchHistory' = SaveFailed(searchHistory, req)
                /\ res' = ErrorResponse(lookup.thrown[1].message)
    /\ pc' = "responded"
    /\ UNCHANGED <<deployment, hasApiKey, req, fetches, now, url, generated, favorites, calls, doc>>
    /\ UNCHANGED bulkVars

NextLookup ==
    \/ pc = "idle" /\ \E body \in LookupRequests : LookupRejectInvalid(body)
    \/ pc = "idle" /\ \E body \in LookupRequests : LookupDemo(body)
    \/ pc = "idle" /\ \E body \in LookupRequests : LookupFailFast(body)
    \/ pc = "idle" /\ \E body \in LookupRequests : LookupFetch(body)
    \/ Tick
    \/ pc = "fetching" /\ \E answer \in LookupAnswers(req) : LookupSettle(answer)

SpecLookup == Init /\ [][NextLookup]_vars

\* one request of any of the three search routes
NextSearch == Next \/ NextLookup

SpecSearch == Init /\ [][NextSearch]_vars

----------------------------------------------------------------------------
(* Export: the values of a request body and JSON *)

Bool(b) == [kind |-> "boolean", bool |-> b]

\* an array, and an object as the list of its own properties in insertion
\* order, each <<key, value>>
JsArray(items) == [kind |-> "array", items |-> items]

JsObject(props) == [kind |-> "object", props |-> props]

Keys(o) == [k \in 1..Len(o.props) |-> o.props[k][1]]

HasKey(o, key) == \E k \in 1..Len(o.props) : o.props[k][1] = key

\* o[key] and o.key: undefined for a property the object does not have
Get(o, key) ==
    IF HasKey(o, key)
    THEN o.props[CHOOSE k \in 1..Len(o.props) : o.props[k][1] = key][2]
    ELSE Undefined

\* v && v.length > 0, for an array or a missing value
NonEmptyArray(v) == v.kind = "array" /\ Len(v.items) > 0

\* v.length of an array
Length(v) == Len(v.items)

RECURSIVE StringifyDropNull(_)
\* a serializer that leaves out the properties whose value is null
StringifyDropNull(v) ==
    CASE v.kind = "array" ->
             [kind |-> "json_array",
              items |-> [k \in 1..Len(v.items) |->
                            IF v.items[k].kind = "undefined" THEN JsNull
                            ELSE StringifyDropNull(v.items[k])]]
      [] v.kind = "object" ->
             LET kept == SelectSeq(v.props, LAMBDA m : m[2].kind \notin {"undefined", "null"})
             IN  [kind |-> "json_object",
                  members |-> [k \in 1..Len(kept) |->
                                  <<kept[k][1], StringifyDropNull(kept[k][2])>>]]
      [] OTHER -> v

RECURSIVE Stringify(_)
\* JSON.stringify(v, null, 2), as the JSON text's tree of values: a property
\* whose value is undefined is left out, an undefined element becomes null
Stringify(v) ==
    CASE v.kind = "array" ->
             [kind |-> "json_array",
              items |-> [k \in 1..Len(v.items) |->
                            IF v.items[k].kind = "undefined" THEN JsNull
                            ELSE Stringify(v.items[k])]]
      [] v.kind = "object" ->
             LET kept == SelectSeq(v.props, LAMBDA m : m[2].kind # "undefined")
             IN  [kind |-> "json_object",
                  members |-> [k \in 1..Len(kept) |-> <<kept[k][1], Stringify(kept[k][2])>>]]
      [] OTHER -> v

RECURSIVE Parse(_)
\* JSON.parse(text)
Parse(j) ==
    CASE j.kind = "json_array" ->
             JsArray([k \in 1..Len(j.items) |-> Parse(j.items[k])])
      [] j.kind = "json_object" ->
             JsObject([k \in 1..Len(j.members) |-> <<j.members[k][1], Parse(j.members[k][2])>>])
      [] OTHER -> j

(* generateJSON *)

\* the properties generateJSON copies into every entry
JsonFields ==
    <<"numeroProcesso", "classeProcessual", "tribunal", "orgaoJulgador", "grau",
      "sistemaProcessual", "formatoProcesso", "dataAjuizamento", "ultimaAtualizacao">>

\* an entry that carries movements and subjects whatever the flags
FilterProcessKeepAll(process, includeMovements, includeSubjects) ==
    JsObject([k \in 1..Len(JsonFields) |-> <<JsonFields[k], Get(process, JsonFields[k])>>]
             \o <<<<"assuntos", Get(process, "assuntos")>>>>
             \o <<<<"movimentos", Get(process, "movimentos")>>>>)

\* the callback of processes.map
FilterProcess(process, includeMovements, includeSubjects) ==
    JsObject([k \in 1..Len(JsonFields) |-> <<JsonFields[k], Get(process, JsonFields[k])>>]
             \o (IF includeSubjects THEN <<<<"assuntos", Get(process, "assuntos")>>>> ELSE <<>>)
             \o (IF includeMovements THEN <<<<"movimentos", Get(process, "movimentos")>>>>
                 ELSE <<>>))

\* the object generateJSON serializes
JsonEnvelope(processes, includeMovements, includeSubjects) ==
    JsObject(<<
        <<"metadata", JsObject(<<
            <<"geradoEm", Str(toISOString(now))>>,
            <<"totalProcessos", Num(Len(processes))>>,
            <<"includeMovimentos", Bool(includeMovements)>>,
            <<"includeAssuntos", Bool(includeSubjects)>> >>)>>,
        <<"processos", JsArray([k \in 1..Len(processes) |->
            FilterProcess(processes[k], includeMovements, includeSubjects)])>> >>)

generateJSON(processes, includeMovements, includeSubjects) ==
    Stringify(JsonEnvelope(processes, includeMovements, includeSubjects))

(* formatDateSafely *)

\* the date strings of the model that new Date() parses, with what
\* toLocaleDateString('pt-BR') and toLocaleTimeString('pt-BR') give for them
\* on a server whose time zone is UTC
ValidDates ==
    {"2023-01-15T10:00:00Z", "2023-02-10T09:00:00Z", "2023-03-20T14:30:00Z",
     "2023-04-05T16:45:00Z", "2024-03-02T08:30:00Z"}

toLocaleDateString(d) ==
    CASE d = "2023-01-15T10:00:00Z" -> "15/01/2023"
      [] d = "2023-02-10T09:00:00Z" -> "10/02/2023"
      [] d = "2023-03-20T14:30:00Z" -> "20/03/2023"
      [] d = "2023-04-05T16:45:00Z" -> "05/04/2023"
      [] OTHER                      -> "02/03/2024"

toLocaleTimeString(d) ==
    CASE d = "2023-01-15T10:00:00Z" -> "10:00:00"
      [] d = "2023-02-10T09:00:00Z" -> "09:00:00"
      [] d = "2023-03-20T14:30:00Z" -> "14:30:00"
      [] d = "2023-04-05T16:45:00Z" -> "16:45:00"
      [] OTHER                      -> "08:30:00"

\* formatDateSafely(dateValue, format): '' for a missing value, the string
\* itself for a sentinel or a string that is no date
formatDateSafely(dateValue, format) ==
    IF ~Truthy(dateValue) THEN ""
    ELSE IF dateValue.kind # "string" THEN ""
    ELSE IF dateValue.str \notin ValidDates THEN dateValue.str
    ELSE IF format = "date" THEN toLocaleDateString(dateValue.str)
    ELSE IF format = "time" THEN toLocaleTimeString(dateValue.str)
    ELSE toLocaleDateString(dateValue.str) \o " " \o toLocaleTimeString(dateValue.str)

(* generateCSV *)

\* `${v}`
ToText(v) ==
    CASE v.kind = "string"    -> v.str
      [] v.kind = "number"    -> ToString(v.num)
      [] v.kind = "null"      -> "null"
      [] v.kind = "undefined" -> "undefined"
      [] OTHER                -> "[object Object]"

\* the text of an element within Array.prototype.join
JoinText(v) == IF v.kind \in {"undefined", "null"} THEN "" ELSE ToText(v)

RECURSIVE Join(_, _)
\* values.join(separator)
Join(values, separator) ==
    IF Len(values) = 0 THEN ""
    ELSE IF Len(values) = 1 THEN JoinText(values[1])
    ELSE Join(SubSeq(values, 1, Len(values) - 1), separator)
         \o separator \o JoinText(values[Len(values)])

\* array.map(x => x[key])
Pluck(array, key) == [k \in 1..Len(array.items) |-> Get(array.items[k], key)]

\* array[index]?.key with a 0-based index
OptAt(array, index, key) ==
    IF index >= 0 /\ index < Len(array.items) THEN Get(array.items[index + 1], key)
    ELSE Undefined

\* the text of one movement in 'Histórico Completo de Movimentações'
MovementText(mov, idx) ==
    "[" \o ToString(idx + 1) \o "] "
    \o formatDateSafely(Get(mov, "dataHora"), "date") \o " "
    \o formatDateSafely(Get(mov, "dataHora"), "time") \o " - "
    \o ToText(Get(mov, "nome"))
    \o (IF Truthy(Get(mov, "complemento")) THEN " | " \o ToText(Get(mov, "complemento"))
        ELSE "")

\* the 0-based index of the n-th movement column (n = 1, 2, 3): the server
\* build reads movimentos[n - 1], the serverless build movimentos[len - n]
MovementIndexOf(build, len, n) == IF build = "server" THEN n - 1 ELSE len - n

\* the index the running build reads
MovementIndex(len, n) == MovementIndexOf(deployment, len, n)

\* the name and date columns of the n-th movement column
MovementColumns(movimentos, n, name, date) ==
    LET index == MovementIndex(Len(movimentos.items), n)
    IN  <<<<name, Or(OptAt(movimentos, index, "nome"), Str(""))>>,
          <<date, Str(formatDateSafely(OptAt(movimentos, index, "dataHora"), "date"))>>>>

BaseColumns(process) ==
    <<<<"Numero do Processo", Get(process, "numeroProcesso")>>,
      <<"Classe Processual", Get(process, "classeProcessual")>>,
      <<"Codigo Classe", Get(process, "codigoClasseProcessual")>>,
      <<"Tribunal", Get(process, "tribunal")>>,
      <<"Orgao Julgador", Get(process, "orgaoJulgador")>>,
      <<"Grau", Get(process, "grau")>>,
      <<"Sistema", Get(process, "sistemaProcessual")>>,
      <<"Formato", Get(process, "formatoProcesso")>>,
      <<"Data de Ajuizamento", Str(formatDateSafely(Get(process, "dataAjuizamento"), "date"))>>,
      <<"Ultima Atualizacao", Str(formatDateSafely(Get(process, "ultimaAtualizacao"), "date"))>>>>

\* subject columns that exist only when there is something to put in them
SubjectColumnsWhenAny(process, includeSubjects) ==
    LET assuntos == Get(process, "assuntos")
    IN  IF includeSubjects /\ NonEmptyArray(assuntos)
        THEN <<<<"Assuntos", Str(Join(Pluck(assuntos, "nome"), "; "))>>,
               <<"Codigos dos Assuntos", Str(Join(Pluck(assuntos, "codigo"), "; "))>>>>
        ELSE <<>>

SubjectColumns(process, includeSubjects) ==
    LET assuntos == Get(process, "assuntos")
    IN  IF includeSubjects /\ NonEmptyArray(assuntos)
        THEN <<<<"Assuntos", Str(Join(Pluck(assuntos, "nome"), "; "))>>,
               <<"Codigos dos Assuntos", Str(Join(Pluck(assuntos, "codigo"), "; "))>>>>
        ELSE <<<<"Assuntos", Str("")>>, <<"Codigos dos Assuntos", Str("")>>>>

\* a summary whose count is left empty as well
EmptySummaryBlankCount ==
    <<<<"Total de Movimentacoes", Str("")>>,
      <<"Ultimo Andamento", Str("")>>,
      <<"Data Ultimo Andamento", Str("")>>,
      <<"Penultimo Andamento", Str("")>>,
      <<"Data Penultimo Andamento", Str("")>>,
      <<"Antepenultimo Andamento", Str("")>>,
      <<"Data Antepenultimo Andamento", Str("")>>,
      <<"Historico Completo de Movimentacoes", Str("")>>>>

\* the movement columns of a record without movements, or with the
\* movements left out
EmptySummary ==
    <<<<"Total de Movimentacoes", Num(0)>>,
      <<"Ultimo Andamento", Str("")>>,
      <<"Data Ultimo Andamento", Str("")>>,
      <<"Penultimo Andamento", Str("")>>,
      <<"Data Penultimo Andamento", Str("")>>,
      <<"Antepenultimo Andamento", Str("")>>,
      <<"Data Antepenultimo Andamento", Str("")>>,
      <<"Historico Completo de Movimentacoes", Str("")>>>>

SummaryColumns(process, includeMovements) ==
    LET movimentos == Get(process, "movimentos")
    IN  IF includeMovements /\ NonEmptyArray(movimentos)
        THEN <<<<"Total de Movimentacoes", Num(Len(movimentos.items))>>>>
             \o MovementColumns(movimentos, 1, "Ultimo Andamento", "Data Ultimo Andamento")
             \o MovementColumns(movimentos, 2, "Penultimo Andamento",
                                "Data Penultimo Andamento")
             \o MovementColumns(movimentos, 3, "Antepenultimo Andamento",
                                "Data Antepenultimo Andamento")
             \o <<<<"Historico Completo de Movimentacoes",
                    Str(Join([k \in 1..Len(movimentos.items) |->
                                 Str(MovementText(movimentos.items[k], k - 1))], " || "))>>>>
        ELSE EmptySummary

\* the record generateCSV builds for one process: its keys in insertion order
CsvRecord(process, includeMovements, includeSubjects) ==
    JsObject(BaseColumns(process)
             \o SubjectColumns(process, includeSubjects)
             \o SummaryColumns(process, includeMovements))

\* the text csv-stringify writes for a value: '' for undefined and null
Cell(v) == IF v.kind \in {"undefined", "null"} THEN "" ELSE ToText(v)

\* the row csv-stringify writes for a record under the columns of the file
RowOf(record, columns) == [c \in 1..Len(columns) |-> Cell(Get(record, columns[c]))]

\* stringify(records, {header: true, delimiter: ',', quoted: true,
\* quoted_empty: true, bom: true}): the columns are the keys of the first
\* record
CsvStringify(records) ==
    LET columns == IF Len(records) = 0 THEN <<>> ELSE Keys(records[1])
    IN  [kind |-> "csv", bom |-> TRUE, header |-> columns,
         rows |-> [k \in 1..Len(records) |-> RowOf(records[k], columns)]]

generateCSV(processes, includeMovements, includeSubjects) ==
    CsvStringify([k \in 1..Len(processes) |->
                     CsvRecord(processes[k], includeMovements, includeSubjects)])

----------------------------------------------------------------------------
(* POST /api/export *)

\* lists of at most MaxExportLen records are exported
MaxExportLen == 2

Movement(codigo, nome, dataHora, complemento) ==
    JsObject(<<<<"codigo", Num(codigo)>>, <<"nome", Str(nome)>>,
               <<"dataHora", Str(dataHora)>>, <<"complemento", complemento>>>>)

Subject(codigo, nome) == JsObject(<<<<"codigo", Num(codigo)>>, <<"nome", Str(nome)>>>>)

\* the required properties of a ProcessResult, with the given lists
RequiredProps(numeroProcesso, dataAjuizamento, movimentos, assuntos) ==
    <<<<"numeroProcesso", Str(numeroProcesso)>>,
      <<"classeProcessual", Str("Acao Civil Publica")>>,
      <<"codigoClasseProcessual", Num(12729)>>,
      <<"sistemaProcessual", Str("PJe")>>,
      <<"formatoProcesso", Str("eletronico")>>,
      <<"tribunal", Str("TJSP")>>,
      <<"ultimaAtualizacao", Str("2024-03-02T08:30:00Z")>>,
      <<"grau", Str("1o Grau")>>,
      <<"dataAjuizamento", Str(dataAjuizamento)>>,
      <<"movimentos", movimentos>>,
      <<"orgaoJulgador", Str("1a Vara Civel")>>,
      <<"assuntos", assuntos>>>>

OptionalProps ==
    <<<<"codigoSistema", Num(3)>>, <<"codigoFormato", Num(1)>>, <<"nivelSigilo", Num(0)>>,
      <<"codigoOrgaoJulgador", Num(9700)>>, <<"codigoMunicipio", Num(3550308)>>>>

\* a record with every property, four movements and two subjects
FullProcess ==
    JsObject(RequiredProps(NumB, "2023-01-15T10:00:00Z",
                 JsArray(<<Movement(26, "Distribuicao", "2023-01-15T10:00:00Z",
                                    Str("Processo distribuido")),
                           Movement(51, "Audiencia", "2023-02-10T09:00:00Z", JsNull),
                           Movement(11, "Conclusao", "2023-03-20T14:30:00Z", Str("Para decisao")),
                           Movement(22, "Baixa", "2023-04-05T16:45:00Z", JsNull)>>),
                 JsArray(<<Subject(10518, "Responsabilidade Civil"),
                           Subject(10520, "Dano Material")>>))
             \o OptionalProps)

\* a record with the required properties only, no movement and no subject
BareProcess == JsObject(RequiredProps(NumA, "Nao informado", JsArray(<<>>), JsArray(<<>>)))

\* a record with one movement whose date is no date, and one subject
OneMovementProcess ==
    JsObject(RequiredProps(DemoZero, "",
                 JsArray(<<Movement(26, "Distribuicao", "sem data", JsNull)>>),
                 JsArray(<<Subject(10518, "Responsabilidade Civil")>>))
             \o OptionalProps)

\* an object that is no ProcessResult: it has no movimentos and no assuntos
MalformedProcess ==
    JsObject(SelectSeq(RequiredProps(DemoNamed, "2023-01-15T10:00:00Z", Undefined, Undefined),
                       LAMBDA m : m[2].kind # "undefined"))

Processes == {FullProcess, BareProcess, OneMovementProcess, MalformedProcess}

ProcessLists == UNION {[1..n -> Processes] : n \in 0..MaxExportLen}

Flags == {Undefined, Bool(TRUE), Bool(FALSE)}

ExportBody(format, data, includeMovements, includeSubjects) ==
    [format |-> format, data |-> data, title |-> Undefined,
     includeMovements |-> includeMovements, includeSubjects |-> includeSubjects]

ExportRequests ==
    {ExportBody(f, d, m, a) :
        f \in {"pdf", "csv", "excel", "json", "xml"},
        d \in {Undefined} \cup {JsArray(l) : l \in ProcessLists},
        m \in Flags, a \in Flags}

Formats == {"pdf", "csv", "json", "excel"}

EmptyInputMsg == "Nenhum dado fornecido para exportacao"

UnsupportedFormatMsg == "Formato de exportacao nao suportado"

\* an issue of a ZodError within the JSON text that is the error's message,
\* by its path and its message
Issue(path, message) == "{\"path\":[" \o path \o "],\"message\":\"" \o message \o "\"}"

\* the issue z.enum raises for the format
InvalidEnumIssue(format) ==
    Issue("\"format\"",
          "Invalid enum value. Expected 'pdf' | 'csv' | 'json' | 'excel', received '"
          \o format \o "'")

\* the issues of data[index], in the order of the keys of processResultSchema
RecordIssues(process, index) ==
    (IF Get(process, "movimentos").kind = "array" THEN <<>>
     ELSE <<Issue("\"data\"," \o ToString(index) \o ",\"movimentos\"", "Required")>>)
    \o (IF Get(process, "assuntos").kind = "array" THEN <<>>
        ELSE <<Issue("\"data\"," \o ToString(index) \o ",\"assuntos\"", "Required")>>)

RECURSIVE DataIssues(_, _)
\* the issues of the first n elements of data
DataIssues(items, n) ==
    IF n = 0 THEN <<>> ELSE DataIssues(items, n - 1) \o RecordIssues(items[n], n - 1)

\* the issues exportRequestSchema.parse(req.body) finds, in the order of the
\* keys of the schema
ExportSchemaIssues(body) ==
    (IF body.format \in Formats THEN <<>> ELSE <<InvalidEnumIssue(body.format)>>)
    \o (IF body.data.kind # "array" THEN <<Issue("\"data\"", "Required")>>
        ELSE DataIssues(body.data.items, Len(body.data.items)))

\* the message of the ZodError: the JSON text of its issues
ZodErrorMessage(issues) ==
    "[" \o Join([k \in 1..Len(issues) |-> Str(issues[k])], ",") \o "]"

\* exportRequestSchema.parse(req.body) of the server route: the message of
\* the error it throws, or Null
ExportSchemaIssue(body) ==
    IF ExportSchemaIssues(body) = <<>> THEN Null
    ELSE Some(ZodErrorMessage(ExportSchemaIssues(body)))

\* what the handler throws before its own checks, or Null: the serverless
\* handler reads req.body without a schema
ExportParseIssue(body) == IF deployment = "server" THEN ExportSchemaIssue(body) ELSE Null

\* !data || data.length === 0
IsEmptyData(data) == IF data.kind = "array" THEN Len(data.items) = 0 ELSE TRUE

\* .default(true) of the schema and the default parameters of the generators
FlagOf(flag) == IF flag.kind = "undefined" THEN TRUE ELSE flag.bool

\* `processos_${new Date().toISOString().split('T')[0]}`
Filename == "processos_2025-01-0" \o ToString(now)

AttachmentNamed(filename, contentType, extension, content) ==
    [contentType |-> contentType, filename |-> filename \o extension, content |-> content]

Attachment(contentType, extension, content) ==
    AttachmentNamed(Filename, contentType, extension, content)

(* generateExcel *)

\* what generateExcel throws for the records, or Null: process.assuntos.map
\* (when subjects are included) and process.movimentos.length are read
\* without a guard
ExcelError(processes, includeSubjects) ==
    LET misses(k) == \/ Get(processes[k], "movimentos").kind # "array"
                     \/ includeSubjects /\ Get(processes[k], "assuntos").kind # "array"
        first == CHOOSE k \in 1..Len(processes) :
                     misses(k) /\ \A j \in 1..(k - 1) : ~misses(j)
    IN  IF \A k \in 1..Len(processes) : ~misses(k) THEN Null
        ELSE IF includeSubjects /\ Get(processes[first], "assuntos").kind # "array"
             THEN Some("Cannot read properties of undefined (reading 'map')")
        ELSE Some("Cannot read properties of undefined (reading 'length')")

\* the row of the main sheet for one process
ExcelRow(process, includeMovements, includeSubjects) ==
    LET movimentos == Get(process, "movimentos")
        assuntos == Get(process, "assuntos")
    IN  JsObject(
            <<<<"Numero do Processo", Get(process, "numeroProcesso")>>,
              <<"Classe Processual", Get(process, "classeProcessual")>>,
              <<"Codigo Classe", Get(process, "codigoClasseProcessual")>>,
              <<"Tribunal", Get(process, "tribunal")>>,
              <<"Orgao Julgador", Get(process, "orgaoJulgador")>>,
              <<"Codigo Orgao Julgador", Or(Get(process, "codigoOrgaoJulgador"), Str(""))>>,
              <<"Grau", Get(process, "grau")>>,
              <<"Sistema", Get(process, "sistemaProcessual")>>,
              <<"Codigo Sistema", Or(Get(process, "codigoSistema"), Str(""))>>,
              <<"Formato", Get(process, "formatoProcesso")>>,
              <<"Codigo Formato", Or(Get(process, "codigoFormato"), Str(""))>>,
              <<"Data de Ajuizamento",
                Str(formatDateSafely(Get(process, "dataAjuizamento"), "date"))>>,
              <<"Ultima Atualizacao",
                Str(formatDateSafely(Get(process, "ultimaAtualizacao"), "date"))>>,
              <<"Nivel de Sigilo", Or(Get(process, "nivelSigilo"), Str(""))>>,
              <<"Codigo Municipio", Or(Get(process, "codigoMunicipio"), Str(""))>>>>
            \o (IF includeSubjects
                THEN <<<<"Assuntos",
                         Str(Join([k \in 1..Len(assuntos.items) |->
                                      Str(ToText(Get(assuntos.items[k], "nome")) \o " ("
                                          \o ToText(Get(assuntos.items[k], "codigo")) \o ")")],
                                  "; "))>>,
                       <<"Codigos Assuntos", Str(Join(Pluck(assuntos, "codigo"), "; "))>>>>
                ELSE <<>>)
            \o <<<<"Quantidade de Movimentos", Num(Len(movimentos.items))>>>>
            \o (IF includeMovements /\ Len(movimentos.items) > 0
                THEN MovementColumns(movimentos, 1, "Ultimo Andamento",
                                     "Data Ultimo Andamento")
                     \o MovementColumns(movimentos, 2, "Penultimo Andamento",
                                        "Data Penultimo Andamento")
                     \o MovementColumns(movimentos, 3, "Antepenultimo Andamento",
                                        "Data Antepenultimo Andamento")
                ELSE SubSeq(EmptySummary, 2, 7)))

\* the rows of the movements sheet for one process; the server build adds
\* the columns of the movement's own court and tabulated complements
MovementRows(process) ==
    LET movimentos == Get(process, "movimentos")
        orgao(movement) == Get(movement, "orgaoJulgador")
        tabelados(movement) == Get(movement, "complementosTabelados")
        text(c) == ToText(Get(c, "nome")) \o ": " \o ToText(Get(c, "descricao")) \o " ("
                   \o ToText(Get(c, "codigo")) \o "=" \o ToText(Get(c, "valor")) \o ")"
        row(index) ==
            LET movement == movimentos.items[index + 1]
            IN  JsObject(
                    <<<<"Numero do Processo", Get(process, "numeroProcesso")>>,
                      <<"Sequencia", Num(index + 1)>>,
                      <<"Data", Str(formatDateSafely(Get(movement, "dataHora"), "date"))>>,
                      <<"Hora", Str(formatDateSafely(Get(movement, "dataHora"), "time"))>>,
                      <<"Codigo Movimento", Or(Get(movement, "codigo"), Str(""))>>,
                      <<"Nome do Movimento", Get(movement, "nome")>>,
                      <<"Complemento", Or(Get(movement, "complemento"), Str(""))>>>>
                    \o (IF deployment = "server" /\ Truthy(orgao(movement))
                        THEN <<<<"Orgao Julgador Movimento",
                                 Get(orgao(movement), "nomeOrgao")>>,
                               <<"Codigo Orgao Movimento",
                                 Get(orgao(movement), "codigoOrgao")>>>>
                        ELSE <<>>)
                    \o (IF deployment = "server" /\ NonEmptyArray(tabelados(movement))
                        THEN <<<<"Complementos Tabelados",
                                 Str(Join([c \in 1..Len(tabelados(movement).items) |->
                                              Str(text(tabelados(movement).items[c]))],
                                          "; "))>>>>
                        ELSE <<>>))
    IN  [k \in 1..Len(movimentos.items) |-> row(k - 1)]

\* the rows of the subjects sheet for one process
SubjectRows(process) ==
    LET assuntos == Get(process, "assuntos")
    IN  [k \in 1..Len(assuntos.items) |->
            JsObject(<<<<"Numero do Processo", Get(process, "numeroProcesso")>>,
                       <<"Codigo Assunto", Get(assuntos.items[k], "codigo")>>,
                       <<"Nome do Assunto", Get(assuntos.items[k], "nome")>>>>)]

RECURSIVE Flatten(_)
\* the elements of the lists, in order
Flatten(lists) ==
    IF Len(lists) = 0 THEN <<>> ELSE Head(lists) \o Flatten(Tail(lists))

\* movementsData and subjectsData: the rows of every process, in order
MovementsData(processes) ==
    Flatten([k \in 1..Len(processes) |-> MovementRows(processes[k])])

SubjectsData(processes) ==
    Flatten([k \in 1..Len(processes) |-> SubjectRows(processes[k])])

RECURSIVE HeaderOf(_)
\* the header json_to_sheet gives the sheet: the keys of the rows, each where
\* it is first seen
HeaderOf(rows) ==
    IF Len(rows) = 0 THEN <<>>
    ELSE LET before == HeaderOf(SubSeq(rows, 1, Len(rows) - 1))
         IN  before \o SelectSeq(Keys(rows[Len(rows)]),
                                 LAMBDA key : \A c \in 1..Len(before) : before[c] # key)

\* XLSX.utils.book_append_sheet(workbook, XLSX.utils.json_to_sheet(rows), name)
Sheet(name, rows) == [name |-> name, header |-> HeaderOf(rows), rows |-> rows]

\* a workbook with a movements sheet and a subjects sheet whenever they are
\* asked for, also when they have no row
generateExcelEverySheet(processes, includeMovements, includeSubjects) ==
    [kind |-> "xlsx",
     sheets |->
         <<Sheet("Processos",
                 [k \in 1..Len(processes) |->
                     ExcelRow(processes[k], includeMovements, includeSubjects)])>>
         \o (IF includeMovements
             THEN <<Sheet("Movimentacoes", MovementsData(processes))>> ELSE <<>>)
         \o (IF deployment = "server" /\ includeSubjects
             THEN <<Sheet("Assuntos", SubjectsData(processes))>> ELSE <<>>)]

\* the workbook generateExcel writes, by its sheets; the serverless build
\* has no subjects sheet
generateExcel(processes, includeMovements, includeSubjects) ==
    [kind |-> "xlsx",
     sheets |->
         <<Sheet("Processos",
                 [k \in 1..Len(processes) |->
                     ExcelRow(processes[k], includeMovements, includeSubjects)])>>
         \o (IF includeMovements /\ Len(MovementsData(processes)) > 0
             THEN <<Sheet("Movimentacoes", MovementsData(processes))>> ELSE <<>>)
         \o (IF deployment = "server" /\ includeSubjects
                /\ Len(SubjectsData(processes)) > 0
             THEN <<Sheet("Assuntos", SubjectsData(processes))>> ELSE <<>>)]

(* generatePDF *)

\* new Date().toLocaleString('pt-BR') on a server whose time zone is UTC
toLocaleString(t) == "0" \o ToString(t) \o "/01/2025, 12:00:00"

\* the bullet character (U+2022) in front of a subject and of a movement
Bullet == "*"

\* the lines doc.text writes for the subjects and for the movements of a
\* process
SubjectLines(assuntos) ==
    <<"Assuntos:">>
    \o [k \in 1..Len(assuntos.items) |->
           Bullet \o " " \o ToText(Get(assuntos.items[k], "nome"))
           \o " (" \o ToText(Get(assuntos.items[k], "codigo")) \o ")"]

MovementLines(movimentos) ==
    <<"Movimentacoes:">>
    \o Flatten([k \in 1..Len(movimentos.items) |->
           <<Bullet \o " " \o formatDateSafely(Get(movimentos.items[k], "dataHora"), "date") \o " "
             \o formatDateSafely(Get(movimentos.items[k], "dataHora"), "time") \o " - "
             \o ToText(Get(movimentos.items[k], "nome"))>>
           \o (IF Truthy(Get(movimentos.items[k], "complemento"))
               THEN <<"  " \o ToText(Get(movimentos.items[k], "complemento"))>>
               ELSE <<>>)])

\* the lines of the page of one process
PdfPage(process, includeMovements, includeSubjects) ==
    <<"Processo: " \o ToText(Get(process, "numeroProcesso")),
      "Classe Processual: " \o ToText(Get(process, "classeProcessual")),
      "Tribunal: " \o ToText(Get(process, "tribunal")),
      "Orgao Julgador: " \o ToText(Get(process, "orgaoJulgador")),
      "Grau: " \o ToText(Get(process, "grau")),
      "Sistema: " \o ToText(Get(process, "sistemaProcessual"))
          \o " (" \o ToText(Get(process, "formatoProcesso")) \o ")",
      "Data de Ajuizamento: " \o formatDateSafely(Get(process, "dataAjuizamento"), "date"),
      "Ultima Atualizacao: " \o formatDateSafely(Get(process, "ultimaAtualizacao"), "date")>>
    \o (IF includeSubjects /\ NonEmptyArray(Get(process, "assuntos"))
        THEN SubjectLines(Get(process, "assuntos")) ELSE <<>>)
    \o (IF includeMovements /\ NonEmptyArray(Get(process, "movimentos"))
        THEN MovementLines(Get(process, "movimentos")) ELSE <<>>)

\* what the executor of generatePDF writes into the document before
\* doc.end(): the heading, then one page per process
PdfParts(processes, title, includeMovements, includeSubjects) ==
    <<<<title, "Gerado em: " \o toLocaleString(now)>>>>
    \o [k \in 1..Len(processes) |->
           PdfPage(processes[k], includeMovements, includeSubjects)]

\* title: string = "Relatório de Processos"
TitleOf(title) == IF title.kind = "undefined" THEN "Relatorio de Processos" ELSE title.str

\* resolve(value) and reject(error) of the promise of generatePDF: only the
\* first call settles it
SettleOnce(promise, outcome) == IF promise.state = "pending" THEN outcome ELSE promise

\* the stream emits at most MaxChunk parts of the document in one chunk
MaxChunk == 2

\* the document generatePDF has written into and ended, with its listeners:
\* parts is what the stream has to emit, emitted the chunks it has emitted,
\* buffers the array of the 'data' listener, filename the name the handler
\* made before the call
NewDocument(parts, promise) ==
    [state |-> "open", parts |-> parts, emitted |-> <<>>, buffers |-> <<>>,
     promise |-> promise, errors |-> 0, filename |-> Filename]

\* Buffer.concat(buffers)
Concatenate(buffers) == [kind |-> "pdf", parts |-> Flatten(buffers)]

\* a 'data' listener that resolves with what it has on the first chunk
OnDataResolving(d, chunk) ==
    [d EXCEPT !.emitted = Append(@, chunk), !.buffers = Append(@, chunk),
              !.promise = SettleOnce(@, Fulfilled(Concatenate(Append(d.buffers, chunk))))]

\* doc.on('data', chunk => buffers.push(chunk))
OnData(d, chunk) ==
    [d EXCEPT !.emitted = Append(@, chunk), !.buffers = Append(@, chunk)]

\* doc.on('end', () => resolve(Buffer.concat(buffers)))
OnEnd(d) ==
    [d EXCEPT !.state = "ended", !.promise = SettleOnce(@, Fulfilled(Concatenate(d.buffers)))]

\* doc.on('error', err => reject(new Error(`Erro do PDFKit: ${err.message}`)))
OnError(d, message) ==
    [d EXCEPT !.errors = @ + 1, !.promise = SettleOnce(@, Rejected("Erro do PDFKit: " \o message))]

\* the generator call of the switch for the synchronous formats
Generate(body) ==
    LET processes == body.data.items
        includeMovements == FlagOf(body.includeMovements)
        includeSubjects == FlagOf(body.includeSubjects)
    IN  CASE body.format = "csv" ->
                 Attachment("text/csv; charset=utf-8", ".csv",
                            generateCSV(processes, includeMovements, includeSubjects))
          [] body.format = "json" ->
                 Attachment("application/json; charset=utf-8", ".json",
                            generateJSON(processes, includeMovements, includeSubjects))
          [] OTHER ->
                 Attachment("application/vnd.openxmlformats-officedocument.spreadsheetml.sheet",
                            ".xlsx",
                            generateExcel(processes, includeMovements, includeSubjects))

ServerError(message) == [status |-> 500, error |-> Some(message), data |-> Null]

\* the schema of the server route refuses the body: the catch answers 500
ExportRejectSchema(body) ==
    /\ pc = "idle"
    /\ ExportParseIssue(body) # Null
    /\ req' = body
    /\ res' = ServerError(ExportParseIssue(body)[1])
    /\ pc' = "responded"
    /\ UNCHANGED <<deployment, hasApiKey, responses, fetches, searchHistory, now, url,
                   generated, favorites, calls, doc>>
    /\ UNCHANGED bulkVars

\* no data: 400
ExportRejectEmpty(body) ==
    /\ pc = "idle"
    /\ ExportParseIssue(body) = Null
    /\ IsEmptyData(body.data)
    /\ req' = body
    /\ res' = ErrorResponse(EmptyInputMsg)
    /\ pc' = "responded"
    /\ UNCHANGED <<deployment, hasApiKey, responses, fetches, searchHistory, now, url,
                   generated, favorites, calls, doc>>
    /\ UNCHANGED bulkVars

\* the default branch of the switch: 400
ExportRejectFormat(body) ==
    /\ pc = "idle"
    /\ ExportParseIssue(body) = Null
    /\ ~IsEmptyData(body.data)
    /\ body.format \notin Formats
    /\ req' = body
    /\ res' = ErrorResponse(UnsupportedFormatMsg)
    /\ pc' = "responded"
    /\ UNCHANGED <<deployment, hasApiKey, responses, fetches, searchHistory, now, url,
                   generated, favorites, calls, doc>>
    /\ UNCHANGED bulkVars

\* csv, excel and json: the generator returns and the document is sent, or
\* the generator throws on a record it cannot read and the catch answers 500
ExportSync(body) ==
    /\ pc = "idle"
    /\ ExportParseIssue(body) = Null
    /\ ~IsEmptyData(body.data)
    /\ body.format \in Formats \ {"pdf"}
    /\ req' = body
    /\ IF body.format = "excel"
          /\ ExcelError(body.data.items, FlagOf(body.includeSubjects)) # Null
       THEN /\ generated' = generated
            /\ res' = ServerError(ExcelError(body.data.items,
                                             FlagOf(body.includeSubjects))[1])
       ELSE /\ generated' = Append(generated, Generate(body))
            /\ res' = OkResponse(Generate(body))
    /\ pc' = "responded"
    /\ UNCHANGED <<deployment, hasApiKey, responses, fetches, searchHistory, now, url,
                   favorites, calls, doc>>
    /\ UNCHANGED bulkVars

\* the parts the document of the request has
PartsOf(body) ==
    PdfParts(body.data.items, TitleOf(body.title), FlagOf(body.includeMovements),
             FlagOf(body.includeSubjects))

\* pdf: generatePDF is called and awaited; its executor writes the document
\* and ends it, or something throws on the way and the catch of the
\* executor rejects
ExportStartPdf(body, threw) ==
    /\ pc = "idle"
    /\ ExportParseIssue(body) = Null
    /\ ~IsEmptyData(body.data)
    /\ body.format = "pdf"
    /\ req' = body
    /\ doc' = IF threw
              THEN [NewDocument(PartsOf(body), Rejected("Erro ao gerar PDF: desconhecido"))
                       EXCEPT !.state = "unfinished"]
              ELSE NewDocument(PartsOf(body), Pending)
    /\ pc' = "generating"
    /\ UNCHANGED <<deployment, hasApiKey, responses, fetches, searchHistory, res, now, url,
                   generated, favorites, calls>>
    /\ UNCHANGED bulkVars

\* only pc and the response are left to change while the stream runs
streamFrame == <<deployment, hasApiKey, pc, req, responses, fetches, searchHistory, res,
                 now, url, generated, favorites, calls>>

\* the stream emits its next chunk, of n parts
PdfData(n) ==
    /\ doc.state \in {"open", "unfinished"}
    /\ Len(Flatten(doc.emitted)) + n <= Len(doc.parts)
    /\ doc' = OnData(doc, SubSeq(doc.parts, Len(Flatten(doc.emitted)) + 1,
                                 Len(Flatten(doc.emitted)) + n))
    /\ UNCHANGED streamFrame
    /\ UNCHANGED bulkVars

\* the stream of an ended document has emitted everything and emits 'end'
PdfEnd ==
    /\ doc.state = "open"
    /\ Len(Flatten(doc.emitted)) = Len(doc.parts)
    /\ doc' = OnEnd(doc)
    /\ UNCHANGED streamFrame
    /\ UNCHANGED bulkVars

\* the document emits 'error'
PdfError ==
    /\ doc.state \in {"open", "unfinished"}
    /\ doc.errors = 0
    /\ doc' = OnError(doc, "stream failure")
    /\ UNCHANGED streamFrame
    /\ UNCHANGED bulkVars

\* res.send(pdfBuffer) with its headers
PdfAttachment(d) ==
    AttachmentNamed(d.filename, "application/pdf", ".pdf", d.promise.value[1])

\* the promise of generatePDF has settled: the handler sends the buffer, or
\* its catch answers 500 with the message of the error
ExportPdfSettled ==
    /\ pc = "generating"
    /\ doc.promise.state # "pending"
    /\ IF doc.promise.state = "fulfilled"
       THEN /\ generated' = Append(generated, PdfAttachment(doc))
            /\ res' = OkResponse(PdfAttachment(doc))
       ELSE /\ generated' = generated
            /\ res' = ServerError(doc.promise.reason[1])
    /\ pc' = "responded"
    /\ UNCHANGED <<deployment, hasApiKey, req, responses, fetches, searchHistory, now, url,
                   favorites, calls, doc>>
    /\ UNCHANGED bulkVars

NextExport ==
    \/ pc = "idle" /\ \E body \in ExportRequests : ExportRejectSchema(body)
    \/ pc = "idle" /\ \E body \in ExportRequests : ExportRejectEmpty(body)
    \/ pc = "idle" /\ \E body \in ExportRequests : ExportRejectFormat(body)
    \/ pc = "idle" /\ \E body \in ExportRequests : ExportSync(body)
    \/ pc = "idle" /\ \E body \in ExportRequests : \E threw \in BOOLEAN :
           ExportStartPdf(body, threw)
    \/ \E n \in 1..MaxChunk : PdfData(n)
    \/ PdfEnd
    \/ PdfError
    \/ ExportPdfSettled
    \/ Tick

SpecExport == Init /\ [][NextExport]_vars

----------------------------------------------------------------------------
(* Storage: the search history *)

\* at most MaxHistory searches are added
MaxHistory == 11

\* .slice(0, 10)
HistoryLimit == 10

\* a fresh identifier (randomUUID(), Math.random()): the number of the call
FreshId(store) == Len(store) + 1

\* the record addSearchHistory stores
StoredSearch(insertSearch, id, searchedAt) ==
    [processNumber |-> insertSearch.processNumber, tribunal |-> insertSearch.tribunal,
     resultData |-> insertSearch.resultData, id |-> id, searchedAt |-> searchedAt]

RECURSIVE InsertByTime(_, _)
\* one step of the stable sort: x goes behind every element that is not
\* older than x
InsertByTime(sorted, x) ==
    IF Len(sorted) = 0 THEN <<x>>
    ELSE IF Head(sorted).searchedAt >= x.searchedAt
         THEN <<Head(sorted)>> \o InsertByTime(Tail(sorted), x)
    ELSE <<x>> \o sorted

RECURSIVE SortNewestFirst(_)
\* values.sort((a, b) => new Date(b.searchedAt).getTime() - new Date(a.searchedAt).getTime()):
\* Array.prototype.sort is stable, equal times keep their order in values
SortNewestFirst(values) ==
    IF Len(values) = 0 THEN <<>>
    ELSE InsertByTime(SortNewestFirst(SubSeq(values, 1, Len(values) - 1)),
                      values[Len(values)])

\* array.slice(0, n)
Slice(array, n) == SubSeq(array, 1, Min(n, Len(array)))

\* MemStorage.getSearchHistory() of the server, GET of the serverless handler
getSearchHistory(store) ==
    IF deployment = "server" THEN Slice(SortNewestFirst(store), HistoryLimit)
    ELSE Slice(store, HistoryLimit)

\* MemStorage.addSearchHistory(insertSearch): this.searchHistory.set(id, search);
\* POST of the serverless handler: searchHistory.unshift(newSearch)
addSearchHistory(store, insertSearch) ==
    IF deployment = "server"
    THEN Append(store, StoredSearch(insertSearch, FreshId(store), now))
    ELSE <<StoredSearch(insertSearch, FreshId(store), now)>> \o store

\* the searches that are added
Searches == {HistoryEntry(NumA, "tjsp", Null)}

storageFrame == <<deployment, hasApiKey, pc, req, responses, fetches, url, generated,
                  favorites, calls, doc>>

AddSearch(insertSearch) ==
    /\ pc = "idle"
    /\ Len(searchHistory) < MaxHistory
    /\ searchHistory' = addSearchHistory(searchHistory, insertSearch)
    /\ UNCHANGED <<res, now>>
    /\ UNCHANGED storageFrame
    /\ UNCHANGED bulkVars

GetSearches ==
    /\ pc = "idle"
    /\ res' = OkResponse(getSearchHistory(searchHistory))
    /\ UNCHANGED <<searchHistory, now>>
    /\ UNCHANGED storageFrame
    /\ UNCHANGED bulkVars

\* a millisecond passes between two calls
TimePasses ==
    /\ pc = "idle"
    /\ now < MaxClock
    /\ now' = now + 1
    /\ UNCHANGED <<searchHistory, res>>
    /\ UNCHANGED storageFrame
    /\ UNCHANGED bulkVars

NextHistory ==
    \/ \E insertSearch \in Searches : AddSearch(insertSearch)
    \/ GetSearches
    \/ TimePasses

SpecHistory == Init /\ [][NextHistory]_vars

----------------------------------------------------------------------------
(* Storage: favorites and follows *)

\* at most MaxCalls requests reach the favorites and follows routes
MaxCalls == 3

Collections == {"favorites", "follows"}

ProcessNumbers == {NumA, NumB}

AlreadyFavoriteMsg == "Processo ja esta nos favoritos"

AlreadyFollowedMsg == "Processo ja esta sendo acompanhado"

AlreadyMsg(collection) ==
    IF collection = "favorites" THEN AlreadyFavoriteMsg ELSE AlreadyFollowedMsg

\* the body of the 404 of a DELETE
MissingMsg(collection) ==
    IF deployment = "serverless" THEN "Favorite not found"
    ELSE IF collection = "favorites" THEN "Favorito nao encontrado"
         ELSE "Acompanhamento nao encontrado"

NotFoundResponse(message) == [status |-> 404, error |-> Some(message), data |-> Null]

CreatedResponse(data) == [status |-> 201, error |-> Null, data |-> Some(data)]

\* the entries of a Map, or the elements of the array of the serverless
\* handler, in insertion order, that are kept under processNumber
EntriesOf(store, processNumber) ==
    SelectSeq(store, LAMBDA e : e.processNumber = processNumber)

\* Map.prototype.get: the entry under the key, or undefined
MapGet(store, processNumber) ==
    IF EntriesOf(store, processNumber) = <<>> THEN Null
    ELSE Some(EntriesOf(store, processNumber)[1])

\* Map.prototype.set: the entry under the key is replaced where it is, a
\* new key goes last
MapSet(store, entry) ==
    IF EntriesOf(store, entry.processNumber) = <<>> THEN Append(store, entry)
    ELSE [k \in 1..Len(store) |->
             IF store[k].processNumber = entry.processNumber THEN entry ELSE store[k]]

\* Map.prototype.delete
MapDelete(store, processNumber) ==
    SelectSeq(store, LAMBDA e : e.processNumber # processNumber)

\* favorites.findIndex(...) then splice(index, 1): the first element under
\* processNumber goes
SpliceFirst(store, processNumber) ==
    LET index == CHOOSE k \in 1..Len(store) :
                     /\ store[k].processNumber = processNumber
                     /\ \A j \in 1..(k - 1) : store[j].processNumber # processNumber
    IN  SubSeq(store, 1, index - 1) \o SubSeq(store, index + 1, Len(store))

\* the favorite (follow) addFavorite (addFollow) stores and returns
StoredFavorite(processNumber, id, addedAt) ==
    [processNumber |-> processNumber, id |-> id, addedAt |-> addedAt]

\* a request of the routes in hand: the handler is at its first await
\* ("checking", "removing"), at its second ("adding") or has answered
Call(collection, method, processNumber, at, found, answer) ==
    [collection |-> collection, method |-> method, processNumber |-> processNumber,
     pc |-> at, found |-> found, res |-> answer]

favoritesFrame == <<deployment, hasApiKey, pc, req, responses, fetches, searchHistory, res,
                    now, url, generated, doc>>

\* POST /api/favorites, POST /api/follows of the server: the body is parsed
\* and storage.getFavoriteByProcessNumber is called; the handler awaits
PostArrives(collection, processNumber) ==
    /\ pc = "idle"
    /\ deployment = "server"
    /\ Len(calls) < MaxCalls
    /\ calls' = Append(calls, Call(collection, "POST", processNumber, "checking",
                                   MapGet(favorites[collection], processNumber),
                                   NoResponse))
    /\ UNCHANGED favorites
    /\ UNCHANGED favoritesFrame
    /\ UNCHANGED bulkVars

\* the handler resumes with `existing`: it answers 400, or calls
\* storage.addFavorite, which sets the entry, and awaits
PostChecked(c) ==
    /\ calls[c].pc = "checking"
    /\ IF calls[c].found # Null
       THEN /\ calls' = [calls EXCEPT ![c].pc = "done",
                                      ![c].res = ErrorResponse(AlreadyMsg(calls[c].collection))]
            /\ UNCHANGED favorites
       ELSE LET favorite == StoredFavorite(calls[c].processNumber, c, now)
            IN  /\ favorites' = [favorites EXCEPT ![calls[c].collection] =
                                                      MapSet(@, favorite)]
                /\ calls' = [calls EXCEPT ![c].pc = "adding", ![c].found = Some(favorite)]
    /\ UNCHANGED favoritesFrame
    /\ UNCHANGED bulkVars

\* the handler resumes with the favorite stored: res.json
PostAdded(c) ==
    /\ calls[c].pc = "adding"
    /\ calls' = [calls EXCEPT ![c].pc = "done", ![c].res = OkResponse(calls[c].found[1])]
    /\ UNCHANGED favorites
    /\ UNCHANGED favoritesFrame
    /\ UNCHANGED bulkVars

\* DELETE /api/favorites/:processNumber, DELETE /api/follows/:processNumber
\* of the server: storage.removeFavorite deletes the key; the handler awaits
DeleteArrives(collection, processNumber) ==
    /\ pc = "idle"
    /\ deployment = "server"
    /\ Len(calls) < MaxCalls
    /\ calls' = Append(calls, Call(collection, "DELETE", processNumber, "removing",
                                   MapGet(favorites[collection], processNumber),
                                   NoResponse))
    /\ favorites' = [favorites EXCEPT ![collection] = MapDelete(@, processNumber)]
    /\ UNCHANGED favoritesFrame
    /\ UNCHANGED bulkVars

\* the handler resumes with `removed`
DeleteRemoved(c) ==
    /\ calls[c].pc = "removing"
    /\ calls' = [calls EXCEPT
                    ![c].pc = "done",
                    ![c].res = IF calls[c].found = Null
                               THEN NotFoundResponse(MissingMsg(calls[c].collection))
                               ELSE OkResponse(calls[c].processNumber)]
    /\ UNCHANGED favorites
    /\ UNCHANGED favoritesFrame
    /\ UNCHANGED bulkVars

\* POST of the serverless handler: the favorite is pushed and sent
ServerlessPost(processNumber) ==
    /\ pc = "idle"
    /\ deployment = "serverless"
    /\ Len(calls) < MaxCalls
    /\ LET favorite == StoredFavorite(processNumber, Len(calls) + 1, now)
       IN  /\ favorites' = [favorites EXCEPT !.favorites = Append(@, favorite)]
           /\ calls' = Append(calls, Call("favorites", "POST", processNumber, "done",
                                          Some(favorite), CreatedResponse(favorite)))
    /\ UNCHANGED favoritesFrame
    /\ UNCHANGED bulkVars

\* DELETE of the serverless handler
ServerlessDelete(processNumber) ==
    /\ pc = "idle"
    /\ deployment = "serverless"
    /\ Len(calls) < MaxCalls
    /\ LET found == MapGet(favorites.favorites, processNumber)
       IN  IF found = Null
           THEN /\ calls' = Append(calls, Call("favorites", "DELETE", processNumber, "done",
                                               found,
                                               NotFoundResponse(MissingMsg("favorites"))))
                /\ UNCHANGED favorites
           ELSE /\ calls' = Append(calls, Call("favorites", "DELETE", processNumber, "done",
                                               found, OkResponse(processNumber)))
                /\ favorites' = [favorites EXCEPT
                                    !.favorites = SpliceFirst(@, processNumber)]
    /\ UNCHANGED favoritesFrame
    /\ UNCHANGED bulkVars

NextFavorites ==
    \/ \E collection \in Collections, processNumber \in ProcessNumbers :
           PostArrives(collection, processNumber)
    \/ \E c \in 1..Len(calls) : PostChecked(c)
    \/ \E c \in 1..Len(calls) : PostAdded(c)
    \/ \E collection \in Collections, processNumber \in ProcessNumbers :
           DeleteArrives(collection, processNumber)
    \/ \E c \in 1..Len(calls) : DeleteRemoved(c)
    \/ \E processNumber \in ProcessNumbers : ServerlessPost(processNumber)
    \/ \E processNumber \in ProcessNumbers : ServerlessDelete(processNumber)

SpecFavorites == Init /\ [][NextFavorites]_vars

----------------------------------------------------------------------------
(* Properties *)

Range(seq) == {seq[k] : k \in 1..Len(seq)}

Count(seq, x) == Cardinality({k \in 1..Len(seq) : seq[k] = x})

ProcessNumbersOf(outcomes) == [k \in 1..Len(outcomes) |-> outcomes[k].processNumber]

Statuses(outcomes) == {outcomes[k].status : k \in 1..Len(outcomes)}

\* the lookups whose upstream request is outstanding
InFlight == {p \in 1..Len(promises) : promises[p].state = "pending"}

\* the 0-based number of the batch input position p belongs to
BatchOf(p) == (p - 1) \div batchSize

\* C1: when bulkSearchDataJud returns, results has one outcome per input
\* identifier: the same length, and every identifier occurs in the outcomes
\* as often as in the input.
C1_OneOutcomePerInput ==
    bulk = "returned" =>
        /\ Len(results) = N
        /\ \A x \in Range(req.processNumbers) \cup Range(ProcessNumbersOf(results)) :
               Count(ProcessNumbersOf(results), x) = Count(req.processNumbers, x)

\* a call over several batches, with duplicates, returned mixed outcomes
C1_Witness ==
    /\ bulk = "returned"
    /\ N > batchSize
    /\ req.processNumbers[1] = req.processNumbers[2]
    /\ Cardinality(Statuses(results)) > 1

WellFormed(o) ==
    /\ o.status \in {"success", "error", "not_found"}
    /\ o.status = "success" => o.result # Null /\ o.error = Null
    /\ o.status \in {"error", "not_found"} => o.error # Null /\ o.result = Null

\* every outcome the request has produced so far: the values of the promises,
\* the results array and the data of the response
OutcomesSoFar ==
    {promises[p].value[1] : p \in {q \in 1..Len(promises) : promises[q].value # Null}}
    \cup Range(results)
    \cup (IF res.data = Null THEN {} ELSE Range(res.data[1]))

\* C2: every outcome of a bulk search has a result and no error when its
\* status is success, and an error and no result when it is error or not_found.
C2_ResultXorError == \A o \in OutcomesSoFar : WellFormed(o)

\* a response carrying a success next to a not_found
C2_Witness ==
    /\ pc = "responded"
    /\ res.data # Null
    /\ {"success", "not_found"} \subseteq Statuses(res.data[1])

\* the lookup of position p, taken alone, ends in a record
LookupSucceeds(p) == hasApiKey /\ responses[p] = "hit"

\* C3: once the court is accepted, bulkSearchDataJud never rejects, whatever
\* the lookups do, and when it returns every position has been looked up and
\* holds the outcome of its own lookup: a success exactly when its own lookup
\* found a record.
C3_PartialFailure ==
    Len(batches) > 0 =>
        /\ bulk # "rejected"
        /\ pc = "responded" => res.status = 200
        /\ bulk = "returned" =>
               /\ Len(results) = N
               /\ \A p \in 1..N :
                      /\ hasApiKey => fetches[p] = 1
                      /\ results[p].status = "success" <=> LookupSucceeds(p)

\* a failed lookup is followed by a success in its own batch and by one in
\* the next batch
C3_Witness ==
    /\ bulk = "returned"
    /\ N > batchSize
    /\ results[2].status # "success"
    /\ results[3].status = "success"
    /\ results[batchSize + 1].status = "success"

\* C4: a lookup that ends in "Processo não encontrado" gives not_found, any
\* other failure gives error with the message of the failure, a record gives
\* success with that record.
C4_Classification ==
    bulk = "returned" =>
        \A k \in 1..Len(results) :
            LET p == origin[k]
                o == results[k]
                answer == IF hasApiKey THEN responses[p] ELSE "none"
            IN  /\ answer = "nohit" =>
                       o.status = "not_found" /\ o.error = Some(NotFoundMsg)
                /\ answer = "http_error" =>
                       o.status = "error" /\ o.error = Some(UpstreamErrorMsg)
                /\ answer = "net_fail" =>
                       o.status = "error" /\ o.error = Some(FetchFailedMsg)
                /\ answer = "none" =>
                       o.status = "error" /\ o.error = Some(DemoModeMsg)
                /\ answer = "hit" =>
                       /\ o.status = "success"
                       /\ o.result # Null
                       /\ o.result[1].tribunal = toUpperCase(req.tribunal)
                /\ o.status = "not_found" <=> answer = "nohit"

\* one call classified a not-found, an upstream error and a record
C4_Witness ==
    /\ bulk = "returned"
    /\ N = 2
    /\ results[1].status = "not_found"
    /\ results[2].status = "error"
    /\ results[2].error = Some(UpstreamErrorMsg)

\* C5: the lookups in flight are all of one batch and at most batchSize: a
\* position of a later batch has a promise only when no position of an
\* earlier batch is still in flight, and nothing is in flight during a pause.
C5_OneBatchInFlight ==
    /\ Cardinality(InFlight) <= batchSize
    /\ \A p \in InFlight : \A q \in 1..Len(promises) : BatchOf(q) <= BatchOf(p)
    /\ \A p \in InFlight : BatchOf(p) = i \div batchSize
    /\ pc \in {"pausing", "returned"} => InFlight = {}

\* the second batch is in flight after a first batch that had ten in flight
C5_Witness ==
    /\ batchSize + 1 \in InFlight
    /\ Len(batches) = 2
    /\ \A p \in 1..batchSize : fetches[p] = 1

\* ceil(n / batchSize)
BatchCount(n) == (n + batchSize - 1) \div batchSize

\* C6: the batches are the consecutive slices of 10 identifiers, the last one
\* holding the remainder; a pause is taken after the join of every batch but
\* the last, before the next batch starts; the call returns after
\* ceil(N/10) batches and ceil(N/10) - 1 pauses.
C6_BatchesAndPauses ==
    /\ \A k \in 1..Len(batches) :
           /\ batches[k].start = (k - 1) * batchSize
           /\ batches[k].size = Min(batchSize, N - (k - 1) * batchSize)
           /\ batches[k].size >= 1
    /\ pc = "running" => pauses = Len(batches) - 1
    /\ pc = "pausing" =>
           /\ pauses = Len(batches)
           /\ Len(results) = Len(batches) * batchSize
           /\ Len(results) < N
           /\ InFlight = {}
    /\ bulk = "returned" =>
           /\ Len(batches) = BatchCount(N)
           /\ pauses = BatchCount(N) - 1

\* 25 identifiers: batches of 10, 10 and 5 and two pauses
C6_Witness ==
    /\ bulk = "returned"
    /\ N = 2 * batchSize + 5
    /\ [k \in 1..Len(batches) |-> batches[k].size] = <<batchSize, batchSize, 5>>
    /\ pauses = 2

\* the input positions 1..n in order
Positions(n) == [k \in 1..n |-> k]

\* C7 (as amended): the outcomes of batch K all precede those of batch K+1,
\* and within a batch they are in input order, whatever the order in which
\* the lookups completed: results[k] is the outcome of input position k.
C7_InputOrder ==
    /\ \A k \in 1..Len(origin) : origin[k] = k
    /\ bulk = "returned" => origin = Positions(N)

\* the second lookup of a batch completed before the first
C7_Witness ==
    /\ bulk = "returned"
    /\ completionOrder = <<2, 1>>
    /\ results[1].status # results[2].status

\* C7 (as claimed): within a batch the outcomes are in the order in which the
\* lookups completed.
C7_CompletionOrder ==
    bulk = "returned" /\ Traced(CurrentBatch) =>
        SubSeq(origin, i + 1, N) = completionOrder

\* C8: a schema-valid bulk search for a court outside the allow-list fails as
\* a whole with "Tribunal não suportado": no outcomes, no promise, no batch,
\* no upstream request, no history entry (stated for the lists that hold no
\* demo identifier, which the server route answers from its fixtures).
C8_UnsupportedTribunal ==
    ( /\ pc # "idle"
      /\ RequestIssue(req) = Null
      /\ ~isDemoRequest(req)
      /\ toLowerCase(req.tribunal) \notin tribunalAliases )
    => /\ pc = "responded"
       /\ bulk = "rejected"
       /\ res = ErrorResponse("Tribunal nao suportado: " \o req.tribunal)
       /\ promises = <<>>
       /\ batches = <<>>
       /\ fetches = <<>>
       /\ searchHistory = <<>>

\* the list of the request is empty or longer than 1000
BadLength == req.hasList /\ (N = 0 \/ N > MaxProcessNumbers)

\* the request names a court and holds 1..1000 non-empty identifiers
GoodList ==
    /\ req.tribunal # ""
    /\ req.hasList
    /\ N >= 1
    /\ N <= MaxProcessNumbers
    /\ \A k \in 1..N : req.processNumbers[k] # ""

Scenario ==
    /\ hasApiKey
    /\ req = Body("tjsp", <<DemoZero, NumA>>)
    /\ pc = "responded"
    /\ bulk # "not_called" => responses = <<"hit", "nohit">>

\* C10 (as amended): in the serverless build the scenario yields a success
\* with a record, then a not_found with "Processo não encontrado"; in the
\* server build the first identifier is a demo identifier, the route answers
\* from its demo branch and both outcomes are successes with fixture records,
\* no upstream request being issued.
C10_Scenario ==
    Scenario =>
        /\ res.status = 200
        /\ Len(res.data[1]) = 2
        /\ ProcessNumbersOf(res.data[1]) = req.processNumbers
        /\ res.data[1][1].status = "success"
        /\ res.data[1][1].result # Null
        /\ IF deployment = "serverless"
           THEN /\ res.data[1][2].status = "not_found"
                /\ res.data[1][2].error = Some("Processo nao encontrado")
                /\ res.data[1][2].result = Null
           ELSE /\ res.data[1][2].status = "success"
                /\ res.data[1][2].result # Null
                /\ fetches = <<>>

\* the serverless build answered the scenario, the second lookup first
C10_Witness ==
    /\ Scenario
    /\ deployment = "serverless"
    /\ completionOrder = <<2, 1>>
    /\ Statuses(res.data[1]) = {"success", "not_found"}

\* C10 (as claimed): the scenario yields a success, then a not_found with
\* "Processo não encontrado".
C10_SuccessThenNotFound ==
    Scenario =>
        /\ res.status = 200
        /\ Len(res.data[1]) = 2
        /\ res.data[1][1].status = "success"
        /\ res.data[1][1].result # Null
        /\ res.data[1][2].status = "not_found"
        /\ res.data[1][2].error = Some("Processo nao encontrado")

----------------------------------------------------------------------------
(* Single lookup *)

\* searchDataJudProcess issued its request and the route has answered
SearchAnswered ==
    /\ pc = "responded"
    /\ req.route = "search"
    /\ Len(responses) = 1

\* the response is ok
TransportSuccess(answer) == answer.kind \in {"hit", "nohit"}

\* the normalized record of the first match of the answer
FirstMatchRecord ==
    Normalize(responses[1].hits[1], req.processNumber, req.tribunal)

----------------------------------------------------------------------------
(* No retries *)

\* the failure the lookup of position p ends in, given the answer it gets
FailureOf(p) ==
    CASE responses[p] = "nohit"      -> NotFoundMsg
      [] responses[p] = "http_error" -> UpstreamErrorMsg
      [] OTHER                       -> FetchFailedMsg

\* C12: no retries: every call of searchDataJudProcess issues at most one
\* upstream request, so in a bulk search at most one request is issued per
\* input position in every state, whatever the answer was, and a failed or
\* not-found lookup hands its failure to the caller unchanged.
C12_NoRetries ==
    /\ Len(fetches) = Len(promises)
    /\ \A p \in 1..Len(fetches) :
           /\ fetches[p] <= 1
           /\ promises[p].state = "pending" => fetches[p] = 1
           /\ (fetches[p] = 1 /\ promises[p].state # "pending" /\ responses[p] # "hit") =>
                  /\ promises[p].state = "fulfilled"
                  /\ promises[p].value[1].error = Some(FailureOf(p))
                  /\ promises[p].value[1].result = Null
    /\ bulk = "returned" /\ hasApiKey => \A p \in 1..N : fetches[p] = 1

\* a call over two batches ended with not-found and failed lookups, each
\* requested once
C12_Witness ==
    /\ bulk = "returned"
    /\ N > batchSize
    /\ responses[1] = "http_error"
    /\ responses[2] = "nohit"
    /\ results[1].status = "error"
    /\ results[2].status = "not_found"
    /\ \A p \in 1..N : fetches[p] = 1

----------------------------------------------------------------------------
(* Demo mode *)

\* the request being served is one of POST /api/search-process or
\* POST /api/advanced-search
IsLookup == "route" \in DOMAIN req

\* the demo-mode error of the lookup function a request reaches
DemoModeMsgOf(body) ==
    IF body.route = "search" THEN DemoModeMsg ELSE AdvancedDemoModeMsg

\* C13: without a credential no upstream request is issued in any state, a
\* single lookup or advanced search that reaches its lookup function is
\* answered with the demo-mode error, and so is every item of a bulk search
\* that reaches searchDataJudProcess.
C13_DemoMode ==
    ~hasApiKey =>
        /\ url = <<>>
        /\ \A p \in 1..Len(fetches) : fetches[p] = 0
        /\ pc # "fetching"
        /\ InFlight = {}
        /\ (IsLookup /\ pc = "responded" /\ LookupIssue(req) = Null /\ ~isDemoLookup(req)) =>
               /\ res = ErrorResponse(DemoModeMsgOf(req))
               /\ res.data = Null
        /\ (~IsLookup /\ Len(batches) > 0) =>
               \A p \in 1..Len(promises) :
                   /\ promises[p].state = "fulfilled"
                   /\ promises[p].value[1].status = "error"
                   /\ promises[p].value[1].error = Some(DemoModeMsg)
                   /\ promises[p].value[1].result = Null

\* a bulk search of 25 identifiers without a credential returned 25 errors
C13_Witness ==
    /\ ~hasApiKey
    /\ ~IsLookup
    /\ bulk = "returned"
    /\ N = 2 * batchSize + 5
    /\ Len(results) = N
    /\ \A k \in 1..N : results[k].error = Some(DemoModeMsg)
    /\ \A p \in 1..N : fetches[p] = 0

----------------------------------------------------------------------------
(* Tribunal resolution *)

\* searchDataJudProcess was called for the request, with a credential
SearchCalled ==
    /\ hasApiKey
    /\ IsLookup
    /\ req.route = "search"
    /\ pc # "idle"
    /\ LookupIssue(req) = Null
    /\ ~isDemoLookup(req)

\* C14: with a credential, a single lookup for a code whose lower-cased form
\* is in the allow-list issues its one request to the endpoint of that
\* lower-case identifier; for a code whose lower-cased form is not in the
\* allow-list it fails with "Tribunal não suportado" and issues no request.
C14_ClosedSet ==
    SearchCalled =>
        IF toLowerCase(req.tribunal) \in tribunalAliases
        THEN /\ url = <<BaseUrl \o "api_publica_" \o toLowerCase(req.tribunal) \o "/_search">>
             /\ fetches = <<1>>
        ELSE /\ pc = "responded"
             /\ res = ErrorResponse("Tribunal nao suportado: " \o req.tribunal)
             /\ url = <<>>
             /\ fetches = <<>>

----------------------------------------------------------------------------
(* Normalizer *)

\* a single lookup returned the record of a match
RecordReturned == SearchAnswered /\ res.status = 200

\* the field is missing or null in the hit
Absent(v) == v.kind \in {"undefined", "null"}

\* the fields of the record the invariant names that come from the hit, with
\* the field of the hit each is made from
StringFields ==
    {<<"classeProcessual", "classe">>, <<"sistemaProcessual", "sistema">>,
     <<"formatoProcesso", "formato">>, <<"grau", "grau">>,
     <<"dataAjuizamento", "dataAjuizamento">>, <<"orgaoJulgador", "orgaoJulgador">>}

Named(v) == v.kind = "object" /\ v.nome.kind = "string"

Times == 1..MaxClock

\* the record the same hit gives for the same request when the clock reads t
RecordAt(t) == NormalizeAt(responses[1].hits[1], req.processNumber, req.tribunal, t)

\* C16 (as amended): every field of the record but ultimaAtualizacao is the
\* same whenever the hit is normalized; ultimaAtualizacao is the date-time of
\* the hit when the hit has one (also when it has a date as well), else its
\* date, and then the whole record is the same at any time; when the hit has
\* neither, ultimaAtualizacao is the reading of the wall clock at the time of
\* the normalization, so two normalizations at different times differ in it.
C16_LastUpdated ==
    RecordReturned =>
        LET record == res.data[1]
            hit == responses[1].hits[1]
            stamped == Truthy(hit.dataHoraUltimaAtualizacao) \/ Truthy(hit.dataUltimaAtualizacao)
        IN  /\ \A t \in Times :
                   [RecordAt(t) EXCEPT !.ultimaAtualizacao = record.ultimaAtualizacao] = record
            /\ Truthy(hit.dataHoraUltimaAtualizacao) =>
                   record.ultimaAtualizacao = hit.dataHoraUltimaAtualizacao
            /\ (~Truthy(hit.dataHoraUltimaAtualizacao) /\ stamped) =>
                   record.ultimaAtualizacao = hit.dataUltimaAtualizacao
            /\ stamped => \A t \in Times : RecordAt(t) = record
            /\ ~stamped =>
                   /\ record.ultimaAtualizacao = Str(toISOString(now))
                   /\ \A t \in Times \ {now} : RecordAt(t) # record

\* a hit without date-time and date, answered after the clock had advanced
C16_Witness ==
    /\ RecordReturned
    /\ now = 2
    /\ responses[1].hits[1].dataHoraUltimaAtualizacao = Undefined
    /\ responses[1].hits[1].dataUltimaAtualizacao = Undefined
    /\ res.data[1].ultimaAtualizacao = Str("2025-01-02T12:00:00.000Z")

\* C16 (as claimed): the record is the same at whatever time the hit is
\* normalized; without date-time and date ultimaAtualizacao is the sentinel;
\* with both it is the date-time.
C16_Deterministic ==
    RecordReturned =>
        LET record == res.data[1]
            hit == responses[1].hits[1]
        IN  /\ \A t \in Times : RecordAt(t) = record
            /\ (~Truthy(hit.dataHoraUltimaAtualizacao) /\ ~Truthy(hit.dataUltimaAtualizacao)) =>
                   record.ultimaAtualizacao = Str(NaoInformado)
            /\ (Truthy(hit.dataHoraUltimaAtualizacao) /\ Truthy(hit.dataUltimaAtualizacao)) =>
                   record.ultimaAtualizacao = hit.dataHoraUltimaAtualizacao

(* C17 *)

\* the request in hand is an export request
IsExport == "format" \in DOMAIN req

EmptyList(data) == data.kind = "array" /\ Len(data.items) = 0

\* C17: an export request of a supported format with an empty record list is
\* answered with the EmptyInput failure, an export request whose format is
\* outside {pdf, csv, excel, json} is answered with the UnsupportedFormat
\* failure, and in both cases no document is generated or sent
C17_Boundary ==
    (pc = "responded" /\ IsExport) =>
        /\ (EmptyList(req.data) /\ req.format \in Formats) =>
               (res = ErrorResponse(EmptyInputMsg) /\ generated = <<>>)
        /\ req.format \notin Formats =>
               (res = ErrorResponse(UnsupportedFormatMsg) /\ generated = <<>>)

(* C18 *)

\* a JSON document has been sent in answer to the export request in hand
JsonSent == pc = "responded" /\ IsExport /\ req.format = "json" /\ res.status = 200

\* the processos of the document sent, parsed back
ProcessosSent == Get(Parse(res.data[1].content), "processos")

RoundTripFields == {"numeroProcesso", "movimentos", "assuntos"}

\* C18: the JSON document generated for a non-empty list with both flags
\* true, parsed back, has a processos list of the length of the input whose
\* k-th entry has the numeroProcesso, movimentos and assuntos of the k-th
\* input record
C18_RoundTrip ==
    (JsonSent /\ FlagOf(req.includeMovements) /\ FlagOf(req.includeSubjects)) =>
        /\ ProcessosSent.kind = "array"
        /\ Len(ProcessosSent.items) = Len(req.data.items)
        /\ \A k \in 1..Len(req.data.items) : \A f \in RoundTripFields :
               Get(ProcessosSent.items[k], f) = Get(req.data.items[k], f)

\* a list of two different records, one with movements of which some have a
\* null complemento, has been exported with both flags true
C18_Witness ==
    /\ JsonSent
    /\ req.includeMovements = Bool(TRUE)
    /\ req.includeSubjects = Bool(TRUE)
    /\ req.data.items = <<OneMovementProcess, FullProcess>>
    /\ Len(Get(ProcessosSent.items[2], "movimentos").items) = 4

(* C19 *)

KeySet(o) == {o.props[k][1] : k \in 1..Len(o.props)}

\* the document sent, parsed back, and its envelope
DocumentSent == Parse(res.data[1].content)

MetadataSent == Get(DocumentSent, "metadata")

\* the lists the flags of the request take out of an entry
Stripped ==
    (IF FlagOf(req.includeMovements) THEN {} ELSE {"movimentos"})
    \cup (IF FlagOf(req.includeSubjects) THEN {} ELSE {"assuntos"})

\* the envelope counts the input records and repeats the flags of the request
EnvelopeAsRequested ==
    /\ Get(MetadataSent, "totalProcessos") = Num(Len(req.data.items))
    /\ Get(MetadataSent, "includeMovimentos") = Bool(FlagOf(req.includeMovements))
    /\ Get(MetadataSent, "includeAssuntos") = Bool(FlagOf(req.includeSubjects))

\* the k-th entry sent has exactly the given properties of the k-th input
\* record, each unchanged
EntryCarries(k, keys) ==
    /\ KeySet(ProcessosSent.items[k]) = keys
    /\ \A key \in keys : Get(ProcessosSent.items[k], key) = Get(req.data.items[k], key)

\* C19 as claimed: the JSON export takes out of each record only the
\* movements (exactly when includeMovements is false) and the subjects
\* (exactly when includeSubjects is false), every other field of the input
\* record appears unchanged, and the envelope has the record count and the
\* two flags of the request
C19_OnlyListsStripped ==
    JsonSent =>
        /\ EnvelopeAsRequested
        /\ Len(ProcessosSent.items) = Len(req.data.items)
        /\ \A k \in 1..Len(req.data.items) :
               EntryCarries(k, KeySet(req.data.items[k]) \ Stripped)

\* C19: each entry of the JSON export has, unchanged, the nine fields
\* numeroProcesso, classeProcessual, tribunal, orgaoJulgador, grau,
\* sistemaProcessual, formatoProcesso, dataAjuizamento and ultimaAtualizacao
\* of its input record, its subjects exactly when includeSubjects is true and
\* its movements exactly when includeMovements is true, and nothing else (no
\* numeric code, secrecy level or municipality code); the envelope has the
\* record count and the two flags of the request, true for a flag left out
C19_FilteredFields ==
    JsonSent =>
        /\ EnvelopeAsRequested
        /\ Len(ProcessosSent.items) = Len(req.data.items)
        /\ \A k \in 1..Len(req.data.items) :
               EntryCarries(k, (({JsonFields[f] : f \in 1..Len(JsonFields)}
                                 \cup {"movimentos", "assuntos"}) \ Stripped)
                               \cap KeySet(req.data.items[k]))

\* a record with every optional code has been exported without its movements
\* and with its subjects, and the entry sent has no municipality code
C19_Witness ==
    /\ JsonSent
    /\ req.includeMovements = Bool(FALSE)
    /\ req.includeSubjects = Undefined
    /\ req.data.items = <<FullProcess, BareProcess>>
    /\ HasKey(req.data.items[1], "codigoMunicipio")
    /\ ~HasKey(ProcessosSent.items[1], "codigoMunicipio")
    /\ ~HasKey(ProcessosSent.items[1], "movimentos")
    /\ Len(Get(ProcessosSent.items[1], "assuntos").items) = 2

(* C20 *)

\* a CSV document has been sent in answer to the export request in hand
CsvSent == pc = "responded" /\ IsExport /\ req.format = "csv" /\ res.status = 200

CsvContent == res.data[1].content

\* the columns of every CSV file
CsvHeader ==
    <<"Numero do Processo", "Classe Processual", "Codigo Classe", "Tribunal",
      "Orgao Julgador", "Grau", "Sistema", "Formato", "Data de Ajuizamento",
      "Ultima Atualizacao", "Assuntos", "Codigos dos Assuntos",
      "Total de Movimentacoes", "Ultimo Andamento", "Data Ultimo Andamento",
      "Penultimo Andamento", "Data Penultimo Andamento", "Antepenultimo Andamento",
      "Data Antepenultimo Andamento", "Historico Completo de Movimentacoes">>

\* C20: whatever the flags and whatever the movements and subjects of the
\* records, the CSV file generated for a non-empty list has the same header
\* columns in the same order and one row per record, in input order, with a
\* cell for every column
C20_StableColumns ==
    CsvSent =>
        /\ CsvContent.header = CsvHeader
        /\ Len(CsvContent.rows) = Len(req.data.items)
        /\ \A k \in 1..Len(req.data.items) :
               /\ Len(CsvContent.rows[k]) = Len(CsvHeader)
               /\ CsvContent.rows[k][1] = Cell(Get(req.data.items[k], "numeroProcesso"))

\* a record without movements and subjects followed by one with four
\* movements and two subjects has been exported with movements and without
\* subjects
C20_Witness ==
    /\ CsvSent
    /\ req.includeMovements = Bool(TRUE)
    /\ req.includeSubjects = Bool(FALSE)
    /\ req.data.items = <<BareProcess, FullProcess>>
    /\ CsvContent.rows[1][13] = "0"
    /\ CsvContent.rows[2][13] = "4"
    /\ CsvContent.rows[2][11] = ""

(* C21 *)

\* the position of a column in the header of the file
ColumnOf(name) == CHOOSE c \in 1..Len(CsvHeader) : CsvHeader[c] = name

CountColumn == ColumnOf("Total de Movimentacoes")

HistoryColumn == ColumnOf("Historico Completo de Movimentacoes")

\* the name and date columns of the three movements
MovementColumnsOfRow ==
    {ColumnOf(name) : name \in {"Ultimo Andamento", "Data Ultimo Andamento",
                                "Penultimo Andamento", "Data Penultimo Andamento",
                                "Antepenultimo Andamento",
                                "Data Antepenultimo Andamento"}}

\* the movements of the k-th input record are written into its row
MovementsWritten(k) ==
    FlagOf(req.includeMovements) /\ NonEmptyArray(Get(req.data.items[k], "movimentos"))

\* the entries of the history cell, in the order of the cell
HistoryEntries(movimentos) ==
    [n \in 1..Len(movimentos.items) |->
        "[" \o ToString(n) \o "] "
        \o formatDateSafely(Get(movimentos.items[n], "dataHora"), "date") \o " "
        \o formatDateSafely(Get(movimentos.items[n], "dataHora"), "time") \o " - "
        \o Get(movimentos.items[n], "nome").str
        \o (IF Get(movimentos.items[n], "complemento").kind = "string"
            THEN " | " \o Get(movimentos.items[n], "complemento").str ELSE "")]

RECURSIVE Concat(_, _)
\* the texts, separated
Concat(texts, separator) ==
    IF Len(texts) = 0 THEN ""
    ELSE IF Len(texts) = 1 THEN texts[1]
    ELSE texts[1] \o separator \o Concat(Tail(texts), separator)

\* the row has the count and the history of the movements of its record
MovementsListed(row, movimentos) ==
    /\ row[CountColumn] = ToString(Len(movimentos.items))
    /\ row[HistoryColumn] = Concat(HistoryEntries(movimentos), " || ")

\* C21 as claimed: in the CSV file the movement columns of a record whose
\* movements are left out or empty are all blank, the count included, and
\* those of a record whose movements are written have the number of
\* movements and the history of every movement in sequence order
C21_BlankColumns ==
    CsvSent =>
        \A k \in 1..Len(req.data.items) :
            IF MovementsWritten(k)
            THEN MovementsListed(CsvContent.rows[k], Get(req.data.items[k], "movimentos"))
            ELSE \A c \in {CountColumn, HistoryColumn} \cup MovementColumnsOfRow :
                     CsvContent.rows[k][c] = ""

\* C21: in the CSV file the movement columns of a record whose movements are
\* left out or empty are present, the count column with 0 and the six
\* columns of the three movements and the history column blank; those of a
\* record whose movements are written have the number of movements and the
\* history of every movement in sequence order
C21_MovementColumns ==
    CsvSent =>
        /\ CsvContent.header = CsvHeader
        /\ \A k \in 1..Len(req.data.items) :
               IF MovementsWritten(k)
               THEN MovementsListed(CsvContent.rows[k], Get(req.data.items[k], "movimentos"))
               ELSE /\ CsvContent.rows[k][CountColumn] = "0"
                    /\ \A c \in {HistoryColumn} \cup MovementColumnsOfRow :
                           CsvContent.rows[k][c] = ""

\* a record with four movements has been exported with its movements after
\* a record without any
C21_Witness ==
    /\ CsvSent
    /\ req.includeMovements = Bool(TRUE)
    /\ req.data.items = <<BareProcess, FullProcess>>
    /\ CsvContent.rows[1][CountColumn] = "0"
    /\ CsvContent.rows[1][HistoryColumn] = ""
    /\ CsvContent.rows[2][CountColumn] = "4"

(* C22 *)

\* the request in hand is a bulk search
IsBulk == "processNumbers" \in DOMAIN req

\* the request in hand is a single search
IsSingle == IsLookup /\ req.route = "search"

\* one entry for each outcome of the response with status success, in the
\* order of the outcomes, keyed by its identifier and the court of the request
SuccessEntries ==
    IF res.status # 200 THEN <<>>
    ELSE LET found == SelectSeq(res.data[1], LAMBDA o : o.status = "success")
         IN  [k \in 1..Len(found) |->
                 HistoryEntry(found[k].processNumber, req.tribunal, found[k].result)]

\* C22 as claimed: after a bulk search the history has one entry per outcome
\* with status success and none for the others, after a single search it has
\* an entry only if the lookup succeeded, and nothing is written before the
\* route has its answer
C22_SuccessOnly ==
    /\ pc # "responded" => searchHistory = <<>>
    /\ (pc = "responded" /\ IsBulk) => searchHistory = SuccessEntries
    /\ (pc = "responded" /\ IsSingle) =>
           searchHistory = (IF res.status = 200
                            THEN <<HistoryEntry(req.processNumber, req.tribunal, res.data)>>
                            ELSE <<>>)

\* C22: bulkSearchDataJud and searchDataJudProcess write nothing; the server
\* route of the bulk search adds one entry per outcome with status success,
\* in order, and none for the others; the server route of the single search
\* adds one entry with the record when the lookup succeeded and one entry
\* with resultData null when it failed and the body has a processNumber and
\* a tribunal; the serverless handlers add nothing
C22_HistoryWrites ==
    /\ pc # "responded" => searchHistory = <<>>
    /\ (pc = "responded" /\ IsBulk) =>
           searchHistory = (IF deployment = "server" THEN SuccessEntries ELSE <<>>)
    /\ (pc = "responded" /\ IsSingle) =>
           searchHistory =
               (IF deployment # "server" THEN <<>>
                ELSE IF res.status = 200
                     THEN <<HistoryEntry(req.processNumber, req.tribunal, res.data)>>
                ELSE IF req.processNumber # "" /\ req.tribunal # ""
                     THEN <<HistoryEntry(req.processNumber, req.tribunal, Null)>>
                ELSE <<>>)

\* a single search that failed upstream has been answered and is in the
\* history
C22_Witness ==
    /\ pc = "responded" /\ IsSingle /\ res.status = 400 /\ fetches # <<>>
    /\ searchHistory = <<HistoryEntry(req.processNumber, req.tribunal, Null)>>

(* C23 *)

\* the identifiers of the searches added so far, newest first, cut to n
NewestFirst(n) ==
    [k \in 1..Min(n, Len(searchHistory)) |-> Len(searchHistory) + 1 - k]

\* C23: what getSearchHistory returns for a store of n searches are
\* min(10, n) searches, the most recently added ones, from the most recently
\* added to the least recently added
C23_LastTenNewestFirst ==
    LET got == getSearchHistory(searchHistory)
    IN  /\ Len(got) = Min(HistoryLimit, Len(searchHistory))
        /\ [k \in 1..Len(got) |-> got[k].id] = NewestFirst(HistoryLimit)

(* C24 *)

\* a workbook has been sent in answer to the export request in hand
ExcelSent == pc = "responded" /\ IsExport /\ req.format = "excel" /\ res.status = 200

\* the main sheet of the workbook sent
MainSheet == res.data[1].content.sheets[1]

\* the text in the named column of the row of the k-th record, in the CSV
\* file or in the main sheet of the workbook sent
ColumnText(k, name) ==
    IF CsvSent THEN CsvContent.rows[k][ColumnOf(name)]
    ELSE Cell(Get(MainSheet.rows[k], name))

\* the name and date columns of the n-th most recent movement
NameColumn(n) ==
    CASE n = 1 -> "Ultimo Andamento"
      [] n = 2 -> "Penultimo Andamento"
      [] OTHER -> "Antepenultimo Andamento"

DateColumn(n) == "Data " \o NameColumn(n)

\* the name and the date of the n-th most recent movement of the k-th
\* record under the convention of a build, blank when there is none
NameUnder(build, k, n) ==
    LET movimentos == Get(req.data.items[k], "movimentos")
    IN  Cell(Or(OptAt(movimentos, MovementIndexOf(build, Len(movimentos.items), n), "nome"),
                Str("")))

DateUnder(build, k, n) ==
    LET movimentos == Get(req.data.items[k], "movimentos")
    IN  formatDateSafely(
            OptAt(movimentos, MovementIndexOf(build, Len(movimentos.items), n), "dataHora"),
            "date")

\* C24: in the CSV file and in the workbook, the latest, second-latest and
\* third-latest movement columns of every record whose movements are written
\* are taken from the same end of the movements, and they are what the
\* server build and the serverless build both write
C24_UniformConvention ==
    (CsvSent \/ ExcelSent) =>
        \A k \in 1..Len(req.data.items) : \A n \in 1..3 :
            MovementsWritten(k) =>
                \A build \in {"server", "serverless"} :
                    /\ ColumnText(k, NameColumn(n)) = NameUnder(build, k, n)
                    /\ ColumnText(k, DateColumn(n)) = DateUnder(build, k, n)

(* C26 *)

\* the sheets of the workbook sent that have the name
SheetsNamed(name) == SelectSeq(res.data[1].content.sheets, LAMBDA sheet : sheet.name = name)

\* for every movement of every record, in order, the identifier of the
\* record and the 1-based position of the movement in the record
MovementKeys ==
    Flatten([k \in 1..Len(req.data.items) |->
                [n \in 1..Len(Get(req.data.items[k], "movimentos").items) |->
                    <<Get(req.data.items[k], "numeroProcesso"), Num(n)>>]])

\* for every subject of every record, in order, the identifier of the record
\* and the code of the subject
SubjectKeys ==
    Flatten([k \in 1..Len(req.data.items) |->
                [n \in 1..Len(Get(req.data.items[k], "assuntos").items) |->
                    <<Get(req.data.items[k], "numeroProcesso"),
                      Get(Get(req.data.items[k], "assuntos").items[n], "codigo")>>]])

\* the workbook has one sheet of the name, whose rows have the keys, row by row
SheetWithKeys(name, column, keys) ==
    /\ Len(SheetsNamed(name)) = 1
    /\ [r \in 1..Len(SheetsNamed(name)[1].rows) |->
           <<Get(SheetsNamed(name)[1].rows[r], "Numero do Processo"),
             Get(SheetsNamed(name)[1].rows[r], column)>>] = keys

\* the main sheet has one row per record, in order
MainSheetAsRecords ==
    /\ MainSheet.name = "Processos"
    /\ [k \in 1..Len(MainSheet.rows) |-> Get(MainSheet.rows[k], "Numero do Processo")]
           = [k \in 1..Len(req.data.items) |-> Get(req.data.items[k], "numeroProcesso")]

PdfAnswered == pc = "responded" /\ IsExport /\ req.format = "pdf"

\* the promise is fulfilled only when the stream has ended, with all the
\* chunks the stream emitted, in order, which are the whole document; the
\* response is the fulfilled buffer, or an error and no document
CompleteOrNothing ==
    doc.state # "none" =>
        /\ doc.promise.state = "fulfilled" =>
               /\ doc.state = "ended"
               /\ doc.promise.value[1] = Concatenate(doc.emitted)
               /\ Flatten(doc.emitted) = doc.parts
        /\ PdfAnswered =>
               IF res.status = 200
               THEN /\ doc.promise.state = "fulfilled"
                    /\ res.data[1].content = doc.promise.value[1]
                    /\ generated = <<res.data[1]>>
               ELSE /\ doc.promise.state = "rejected"
                    /\ res = ServerError(doc.promise.reason[1])
                    /\ generated = <<>>

\* a settled promise stays as it is
SettledOnce ==
    (doc.state # "none" /\ doc.promise.state # "pending") => doc'.promise = doc.promise

\* C27: the promise of generatePDF is fulfilled only after 'end', with the
\* concatenation in emission order of all the chunks emitted before it; it
\* settles at most once, with the complete buffer or with an error; an export
\* whose rendering fails is answered with an error and no document
C27_CompleteOrNothing == []CompleteOrNothing /\ [][SettledOnce]_vars

\* a document of three parts has been emitted in two chunks and sent
C27_Witness ==
    /\ PdfAnswered
    /\ res.status = 200
    /\ Len(doc.emitted) = 2
    /\ Len(doc.parts) = 3
    /\ res.data[1].content.parts = doc.parts

\* a document whose stream failed after its first chunk has been refused
PdfFailureSeen ==
    /\ PdfAnswered
    /\ doc.state # "none"
    /\ res.status = 500
    /\ Len(doc.emitted) > 0
    /\ doc.errors = 1

(* C25 *)

\* the record with the list under key emptied
Without(process, key) ==
    JsObject([k \in 1..Len(process.props) |->
                 IF process.props[k][1] = key THEN <<key, JsArray(<<>>)>>
                 ELSE process.props[k]])

\* the request whose records have the list under key emptied
RequestWithout(body, key) ==
    [body EXCEPT !.data = JsArray([k \in 1..Len(body.data.items) |->
                                      Without(body.data.items[k], key)])]

\* a document has been sent in answer to an export
ExportSent == pc = "responded" /\ IsExport /\ res.status = 200

\* the document sent is the one the request gives whose records have the
\* list under key emptied: nothing in it comes from that list (the pages of
\* a PDF are compared, its heading holds the title and the time only)
SameWithout(key) ==
    IF req.format = "pdf"
    THEN Tail(res.data[1].content.parts) = Tail(PartsOf(RequestWithout(req, key)))
    ELSE res.data[1].content = Generate(RequestWithout(req, key)).content

\* C25: with includeMovements false the document of every format holds no
\* value derived from the movements of the records, and with includeSubjects
\* false none derived from their subjects
C25_FlagsHonoured ==
    ExportSent =>
        /\ ~FlagOf(req.includeMovements) => SameWithout("movimentos")
        /\ ~FlagOf(req.includeSubjects) => SameWithout("assuntos")

\* the flags are honoured by every format but the spreadsheet, and the
\* subjects flag by the spreadsheet too
FlagsHonouredElsewhere ==
    ExportSent =>
        /\ (~FlagOf(req.includeMovements) /\ req.format # "excel")
               => SameWithout("movimentos")
        /\ ~FlagOf(req.includeSubjects) => SameWithout("assuntos")

\* the main sheet of a spreadsheet made without the movements holds the
\* number of movements of its record
MovementCountLeaks ==
    /\ ExportSent
    /\ req.format = "excel"
    /\ ~FlagOf(req.includeMovements)
    /\ req.data.items = <<FullProcess>>
    /\ ColumnText(1, "Quantidade de Movimentos") = "4"

(* C28 *)

\* C28: whatever the order in which the lookups of a batch completed, the
\* list bulkSearchDataJud returns has one outcome per input position and the
\* outcome at each position carries the identifier of that position, also
\* when the list holds an identifier twice
C28_PositionalAlignment ==
    bulk = "returned" =>
        /\ Len(results) = Len(req.processNumbers)
        /\ \A k \in 1..Len(results) : results[k].processNumber = req.processNumbers[k]

\* the list holds the same identifier twice, the second lookup completed
\* first and the two lookups ended differently
C28_Witness ==
    /\ bulk = "returned"
    /\ req.processNumbers = <<NumA, NumA>>
    /\ completionOrder = <<2, 1>>
    /\ results[1].status = "success"
    /\ results[2].status = "not_found"

(* C29 *)

\* the requests of a method for a key of a collection
CallsFor(collection, method, processNumber) ==
    {c \in 1..Len(calls) : /\ calls[c].collection = collection
                           /\ calls[c].method = method
                           /\ calls[c].processNumber = processNumber}

Answered(c) == calls[c].pc = "done"

Succeeded(c) == Answered(c) /\ calls[c].res.status \in {200, 201}

\* the store holds at most one entry per key
OnePerKey ==
    \A collection \in Collections, processNumber \in ProcessNumbers :
        Len(EntriesOf(favorites[collection], processNumber)) <= 1

\* a remove that found nothing has answered not-found
AbsentNotFound ==
    \A c \in 1..Len(calls) :
        (Answered(c) /\ calls[c].method = "DELETE" /\ calls[c].found = Null)
            => calls[c].res = NotFoundResponse(MissingMsg(calls[c].collection))

\* C29: of the add requests for one key with no remove for it, whatever
\* their interleaving, at most one is answered with success and the others
\* with "Processo ja esta nos favoritos" (for follows, the text of the
\* follows route); the store holds at most one entry per key; a remove of
\* an absent key is answered not-found
C29_UniqueUnderConcurrency ==
    /\ \A collection \in Collections, processNumber \in ProcessNumbers :
           CallsFor(collection, "DELETE", processNumber) = {} =>
               /\ Cardinality({c \in CallsFor(collection, "POST", processNumber) :
                                  Succeeded(c)}) <= 1
               /\ \A c \in CallsFor(collection, "POST", processNumber) :
                      (Answered(c) /\ ~Succeeded(c))
                          => calls[c].res = ErrorResponse(AlreadyMsg(collection))
    /\ OnePerKey
    /\ AbsentNotFound

\* a remove of an absent key leaves the store as it is
RemoveAbsentStep ==
    (\E processNumber \in ProcessNumbers :
        \/ \E collection \in Collections :
               /\ DeleteArrives(collection, processNumber)
               /\ MapGet(favorites[collection], processNumber) = Null
        \/ /\ ServerlessDelete(processNumber)
           /\ MapGet(favorites.favorites, processNumber) = Null)
    => favorites' = favorites

\* what holds: the Map of the server holds one entry per key, and a remove
\* of an absent key answers not-found and changes nothing
HoldsOfTheStore ==
    /\ [](deployment = "server" => OnePerKey)
    /\ []AbsentNotFound
    /\ [][RemoveAbsentStep]_vars

\* two add requests of the server for the same favorite are both answered
\* with success: the second was checked before the first had added
BothAdded ==
    /\ deployment = "server"
    /\ Len(calls) = 2
    /\ \A c \in 1..2 : /\ calls[c].collection = "favorites"
                       /\ calls[c].method = "POST"
                       /\ calls[c].processNumber = NumA
                       /\ Succeeded(c)

\* the serverless handler holds two favorites under one key
TwoUnderOneKey ==
    /\ deployment = "serverless"
    /\ Len(EntriesOf(favorites.favorites, NumA)) = 2

(* C30 *)

\* every input position is in exactly one of the batches launched
LaunchedOnce ==
    \A p \in 1..N :
        Cardinality({k \in 1..Len(batches) :
                        batches[k].start < p /\ p <= batches[k].start + batches[k].size}) = 1

\* the call has returned: every position has its one promise and its one
\* batch, at most one request was sent for it, and no lookup is in flight
ReturnedComplete ==
    bulk = "returned" =>
        /\ InFlight = {}
        /\ Len(promises) = N
        /\ LaunchedOnce
        /\ \A p \in 1..N : fetches[p] <= 1

\* a promise is made once: it is never replaced by a new pending one
NeverRelaunched ==
    /\ Len(promises') >= Len(promises)
    /\ \A p \in 1..Len(promises) :
           promises[p].state # "pending" => promises'[p] = promises[p]

\* C30: when every lookup settles and every pause elapses, a call of
\* bulkSearchDataJud that got past the court check returns; it has then
\* launched exactly one lookup per input position, and it never returns
\* while one of its lookups is in flight
C30_Termination ==
    /\ (bulk = "running") ~> (bulk = "returned")
    /\ []ReturnedComplete
    /\ [][NeverRelaunched]_vars

\* the call returned after two batches and a pause, with lookups that
\* failed among its outcomes
C30_Witness ==
    /\ bulk = "returned"
    /\ N = batchSize + 1
    /\ pauses = 1
    /\ Len(batches) = 2
    /\ \E p \in 1..N : results[p].status = "error"

====
